---- MODULE Spec2Model ----
(***************************************************************************)
(* Pollinations-Chat: the send / regenerate orchestrator (ChatPage), the   *)
(* session store hook (useLocalSession) and the streaming client           *)
(* (streamGeneration), as state machines.                                  *)
(*                                                                         *)
(* Text is a sequence of symbols; string concatenation is \o.  A React     *)
(* state cell is a variable; a handler reads the cells as they were when   *)
(* it was invoked (its closure) and every await that waits for I/O is a    *)
(* step boundary.  The cells selectedModel and balance are written only by *)
(* handlers that read nothing else (the model picker, the balance timer),  *)
(* so a handler that reads them takes their current value as an input.     *)
(***************************************************************************)
EXTENDS Integers, Sequences, FiniteSets, TLC

VARIABLES
  sessions,         \* useLocalSession: sessions (most recently created first)
  activeSessionId,  \* useLocalSession: activeSessionId, NoId when null
  isStreaming,      \* ChatPage: isStreaming
  abortRef,         \* ChatPage: abortRef.current, 0 when null, else the call owning the controller
  calls,            \* the handleSend invocations, in invocation order
  requests,         \* the number of chat-completion requests issued
  nextId,           \* uuid(): the next fresh id
  lastOp,           \* the handler or continuation that ran last
  wire,             \* streamGeneration: the bytes of the response body, as the server sends them
  pos,              \* streamGeneration: how much of the body reader.read() has delivered
  buffer,           \* streamGeneration: buffer
  lastUsage,        \* streamGeneration: lastUsage, "none" when undefined
  lastTier,         \* streamGeneration: lastTier, "none" when undefined
  cbs,              \* streamGeneration: the onChunk / onDone calls made, in order
  signal,           \* streamGeneration: signal.aborted
  spc,              \* streamGeneration: where the call is, or how it ended
  saved,            \* storage: the sessions handed to saveSession, in order (StoreSpec)
  settled,          \* storage: the saveSession calls whose put has settled, in that order,
                    \* each with whether the session was stored
  awaiting,         \* useLocalSession: the calls suspended at an await on the storage layer
  args,             \* lib: what the library function called last was called with
  result            \* lib: what it returned or threw

vars == <<sessions, activeSessionId, isStreaming, abortRef, calls, requests, nextId, lastOp,
          wire, pos, buffer, lastUsage, lastTier, cbs, signal, spc, saved, settled,
          awaiting, args, result>>

orchVars == <<sessions, activeSessionId, isStreaming, abortRef, calls, requests, nextId, lastOp>>
streamVars == <<wire, pos, buffer, lastUsage, lastTier, cbs, signal, spc>>
storeVars == <<saved, settled, awaiting>>
libVars == <<args, result>>

\* ---------------------------------------------------------------- bounds
MaxCalls == 2       \* handleSend invocations explored
MaxChunks == 2      \* text deltas delivered to one generation

\* ---------------------------------------------------------------- values
NoId == 0
NoBalance == -1

Min(a, b) == IF a < b THEN a ELSE b
Max(a, b) == IF a > b THEN a ELSE b

RECURSIVE Flatten(_)
Flatten(ss) == IF ss = <<>> THEN <<>> ELSE Head(ss) \o Flatten(Tail(ss))

\* String.prototype.trim over symbols, " " being the whitespace symbol
RECURSIVE TrimLeft(_)
TrimLeft(s) == IF s # <<>> /\ Head(s) = " " THEN TrimLeft(Tail(s)) ELSE s
RECURSIVE TrimRight(_)
TrimRight(s) ==
  IF s # <<>> /\ s[Len(s)] = " " THEN TrimRight(SubSeq(s, 1, Len(s) - 1)) ELSE s
Trim(s) == TrimRight(TrimLeft(s))

\* what the user can type into the composer, and attach
ComposerInputs ==
  { [text |-> <<"h", " ">>, attachments |-> <<>>],
    [text |-> <<" ">>, attachments |-> <<"att">>],
    [text |-> <<" ">>, attachments |-> <<>>] }
EditTexts == { <<"e">> }
Modes == {"text", "image", "video", "audio"}

\* the text deltas of a response, in the order the server sends them
DeltaSymbols == <<"x", "y", "z", "w">>
Delta(i) == <<DeltaSymbols[i]>>

\* PollinationsModel: type, outputModalities, pricing.promptTextTokens (micro-pollen per token)
Models ==
  { [name |-> "openai", type |-> "text",  outputModalities |-> {"text"},  promptTextTokens |-> 50],
    [name |-> "gemini", type |-> "text",  outputModalities |-> {"text", "image"}, promptTextTokens |-> 0],
    [name |-> "flux",   type |-> "image", outputModalities |-> {"image"}, promptTextTokens |-> 0],
    [name |-> "veo",    type |-> "video", outputModalities |-> {"video"}, promptTextTokens |-> 0] }
Balances == {NoBalance, 0, 100}

\* ChatPage settings: defaults of useState
autoReadBalance == TRUE
systemPrompt == <<"sp">>

\* ---------------------------------------------------------------- cost estimator
MIN_POLLEN_PER_PROMPT == 40    \* 0.00004 pollen, in micro-pollen

\* estimateTokens: every symbol of the model is one word of at most four
\* characters, so both heuristics reduce to the word count, floored at 1
estimateTokens(text) == IF text = <<>> THEN 0 ELSE Max(Len(text), 1)

\* estimateMessagesTokens: four tokens of overhead a message, two of priming
RECURSIVE estimateMessagesTokens(_)
estimateMessagesTokens(messages) ==
  IF messages = <<>> THEN 2
  ELSE 4 + estimateTokens(Head(messages).content) + estimateMessagesTokens(Tail(messages))

\* a pricing object: micro-pollen per token, per image or per second under each field,
\* 0 where the field is absent; NoPricing when the model has no pricing
PricingFields == {"promptTextTokens", "promptAudioTokens", "completionTextTokens",
                  "completionImageTokens", "completionVideoSeconds", "completionVideoTokens",
                  "completionAudioSeconds", "completionAudioTokens"}
NoPricing == [f \in {} |-> 0]
\* selectedModel.pricing
PricingOf(model) ==
  [f \in PricingFields |-> IF f = "promptTextTokens" THEN model.promptTextTokens ELSE 0]

\* Math.max(cost, MIN_POLLEN_PER_PROMPT) left out
computePollenCost_NoFloor(pricing, inputTokens, outputTokens) ==
  IF pricing = NoPricing THEN MIN_POLLEN_PER_PROMPT
  ELSE pricing.promptTextTokens * inputTokens + pricing.completionTextTokens * outputTokens

\* every output field that is present adds its cost
computePollenCost_AllOutputs(pricing, inputTokens, outputTokens) ==
  IF pricing = NoPricing THEN MIN_POLLEN_PER_PROMPT
  ELSE Max(pricing.promptTextTokens * inputTokens + pricing.promptAudioTokens * inputTokens
           + pricing.completionTextTokens * outputTokens + pricing.completionImageTokens
           + pricing.completionVideoSeconds * 5 + pricing.completionVideoTokens * outputTokens
           + pricing.completionAudioTokens * outputTokens
           + pricing.completionAudioSeconds * 10, MIN_POLLEN_PER_PROMPT)

computePollenCost(pricing, inputTokens, outputTokens) ==
  IF pricing = NoPricing THEN MIN_POLLEN_PER_PROMPT
  ELSE LET input == (IF pricing.promptTextTokens # 0
                       THEN pricing.promptTextTokens * inputTokens ELSE 0)
                    + (IF pricing.promptAudioTokens # 0
                         THEN pricing.promptAudioTokens * inputTokens ELSE 0)
           output == IF pricing.completionTextTokens # 0
                       THEN pricing.completionTextTokens * outputTokens
                     ELSE IF pricing.completionImageTokens # 0
                       THEN pricing.completionImageTokens
                     ELSE IF pricing.completionVideoSeconds # 0
                       THEN pricing.completionVideoSeconds * 5
                     ELSE IF pricing.completionVideoTokens # 0
                       THEN pricing.completionVideoTokens * outputTokens
                     ELSE IF pricing.completionAudioTokens # 0
                       THEN pricing.completionAudioTokens * outputTokens
                     ELSE IF pricing.completionAudioSeconds # 0
                       THEN pricing.completionAudioSeconds * 10
                     ELSE 0
       IN Max(input + output, MIN_POLLEN_PER_PROMPT)

\* the comparison dropped: every balance is sufficient
hasSufficientPollen_Always(bal, required) == TRUE

hasSufficientPollen(bal, required) == bal >= required

\* ---------------------------------------------------------------- session store
IndexOfMsg(msgs, mid) ==
  IF \E i \in 1..Len(msgs) : msgs[i].id = mid
  THEN CHOOSE i \in 1..Len(msgs) : msgs[i].id = mid /\ \A j \in 1..(i - 1) : msgs[j].id # mid
  ELSE 0

Slice(s, n) == SubSeq(s, 1, Min(n, Len(s)))

TITLE_LEN == 50
\* >= 50 instead of > 50
AutoTitle_EllipsisAtLimit(content) ==
  Slice(content, TITLE_LEN) \o (IF Len(content) >= TITLE_LEN THEN <<"...">> ELSE <<>>)

AutoTitle(content) ==
  Slice(content, TITLE_LEN) \o (IF Len(content) > TITLE_LEN THEN <<"...">> ELSE <<>>)

\* { ...m, ...update }
Merge(m, update) == [f \in DOMAIN m |-> IF f \in DOMAIN update THEN update[f] ELSE m[f]]

\* [message, ...s.messages] instead of [...s.messages, message]
addMessage_AtHead(ss, sessionId, message) ==
  [i \in DOMAIN ss |->
     IF ss[i].id # sessionId THEN ss[i]
     ELSE [ss[i] EXCEPT
             !.messages = <<message>> \o @,
             !.title = IF Len(ss[i].messages) = 0 /\ message.role = "user"
                       THEN AutoTitle(message.content) ELSE @]]

addMessage(ss, sessionId, message) ==
  [i \in DOMAIN ss |->
     IF ss[i].id # sessionId THEN ss[i]
     ELSE [ss[i] EXCEPT
             !.messages = Append(@, message),
             !.title = IF Len(ss[i].messages) = 0 /\ message.role = "user"
                       THEN AutoTitle(message.content) ELSE @]]

updateMessage(ss, sessionId, messageId, update) ==
  [i \in DOMAIN ss |->
     IF ss[i].id # sessionId THEN ss[i]
     ELSE [ss[i] EXCEPT
             !.messages = [k \in DOMAIN @ |->
                             IF @[k].id = messageId THEN Merge(@[k], update) ELSE @[k]]]]

\* filter on the position instead of the id: the later messages go as well
deleteMessage_AndLater(ss, sessionId, messageId) ==
  [i \in DOMAIN ss |->
     IF ss[i].id # sessionId THEN ss[i]
     ELSE LET idx == IndexOfMsg(ss[i].messages, messageId)
          IN IF idx = 0 THEN ss[i]
             ELSE [ss[i] EXCEPT !.messages = SubSeq(@, 1, idx - 1)]]

deleteMessage(ss, sessionId, messageId) ==
  [i \in DOMAIN ss |->
     IF ss[i].id # sessionId THEN ss[i]
     ELSE [ss[i] EXCEPT !.messages = SelectSeq(@, LAMBDA m : m.id # messageId)]]

\* off by one: slice(0, idx + 1) keeps the message itself
deleteMessagesFrom_KeepsTarget(ss, sessionId, messageId) ==
  [i \in DOMAIN ss |->
     IF ss[i].id # sessionId THEN ss[i]
     ELSE LET idx == IndexOfMsg(ss[i].messages, messageId)
          IN IF idx = 0 THEN ss[i]
             ELSE [ss[i] EXCEPT !.messages = SubSeq(@, 1, idx)]]

\* without `if (idx === -1) return s`: slice(0, -1) drops the last message
deleteMessagesFrom_NoUnknownCheck(ss, sessionId, messageId) ==
  [i \in DOMAIN ss |->
     IF ss[i].id # sessionId THEN ss[i]
     ELSE LET idx == IndexOfMsg(ss[i].messages, messageId)
          IN [ss[i] EXCEPT !.messages = SubSeq(@, 1, IF idx = 0 THEN Len(@) - 1 ELSE idx - 1)]]

deleteMessagesFrom(ss, sessionId, messageId) ==
  [i \in DOMAIN ss |->
     IF ss[i].id # sessionId THEN ss[i]
     ELSE LET idx == IndexOfMsg(ss[i].messages, messageId)
          IN IF idx = 0 THEN ss[i]
             ELSE [ss[i] EXCEPT !.messages = SubSeq(@, 1, idx - 1)]]

HasSession(ss, sid) == \E i \in DOMAIN ss : ss[i].id = sid
SessionOf(ss, sid) == ss[CHOOSE i \in DOMAIN ss : ss[i].id = sid]
MessagesOf(ss, sid) == IF HasSession(ss, sid) THEN SessionOf(ss, sid).messages ELSE <<>>
HasMsg(ss, sid, mid) == IndexOfMsg(MessagesOf(ss, sid), mid) # 0
MsgOf(ss, sid, mid) == MessagesOf(ss, sid)[IndexOfMsg(MessagesOf(ss, sid), mid)]

\* const activeSession = sessions.find(...) ?? null ; activeSession?.messages ?? []
ActiveMessages == MessagesOf(sessions, activeSessionId)

\* ---------------------------------------------------------------- orchestrator values
NoModel == [name |-> "none", type |-> "none", outputModalities |-> {}, promptTextTokens |-> 0]

markdownInstruction == <<"md">>
systemContent ==
  IF systemPrompt # <<>> THEN systemPrompt \o <<"\n\n">> \o markdownInstruction
  ELSE markdownInstruction

CancelMarker == <<"\n\n*[Generation cancelled]*">>
ImageSuccess == <<"Image generated successfully.">>
VideoSuccess == <<"Video generated successfully.">>

\* errors a generation request can be rejected with
PollinationsError(status, message) ==
  [type |-> "PollinationsError", status |-> status, message |-> message]
TypeError == [type |-> "Error", status |-> -1, message |-> "Failed to fetch"]
HttpErrors == { PollinationsError(402, "plain") }

\* extractFriendlyError: the class of the message written into the conversation
FriendlyClass(err) ==
  IF err.type = "PollinationsError" THEN
    IF err.status \in {502, 503} \/ err.message \in {"Bad Gateway", "Service Unavailable"}
      THEN "unavailable"
    ELSE IF err.status = 500 \/ err.message = "Internal Server Error" THEN "internal error"
    ELSE IF err.status = 429 THEN "rate limit"
    ELSE IF err.status = 402 THEN "insufficient pollen"
    ELSE IF err.status = 400 \/ err.message \in {"bad request", "requires"} THEN "can't process"
    ELSE "returned an error"
  ELSE IF err.type = "Error" THEN "not responding"
  ELSE "unexpected error"

extractFriendlyError(err, mode) == <<mode, "generation failed", FriendlyClass(err)>>

\* getSupportedModes and the composer's effectiveMode
getSupportedModes(model) ==
  IF model.type \in {"image", "video", "audio"} THEN {model.type}
  ELSE {"text"} \cup (model.outputModalities \cap {"image", "video", "audio"})

ComposerMode(model, mode) ==
  IF mode \in getSupportedModes(model) THEN mode
  ELSE IF model.type \in {"image", "video", "audio"} THEN model.type ELSE "text"

\* handleSend: effectiveMode
EffectiveMode(model, mode) ==
  IF model.type = "image" THEN "image"
  ELSE IF model.type = "video" THEN "video"
  ELSE IF model.type = "text" /\ mode # "text" THEN "text"
  ELSE mode

Reduce(msgs) == [i \in DOMAIN msgs |-> [role |-> msgs[i].role, content |-> msgs[i].content]]

\* one handleSend invocation: its arguments, the cells its closure captured
\* (model, closureMsgs), its locals (sessionId, assistantId, accum) and where it is
Frame(pc, text, mode, attachments, model, closureMsgs, sessionId) ==
  [pc |-> pc, text |-> text, mode |-> mode, attachments |-> attachments, model |-> model,
   closureMsgs |-> closureMsgs, sessionId |-> sessionId, userId |-> NoId,
   assistantId |-> NoId, apiMessages |-> <<>>, accum |-> <<>>, chunks |-> <<>>]

\* a handleSend invocation that has returned holds nothing any more
Returned == Frame("done", <<>>, "text", <<>>, NoModel, <<>>, NoId)

\* handleSend from "User message" on: what the cells become when frame f (call k)
\* runs it on the store ss
SendBody(ss, k, f) ==
  LET userMsg == [id |-> nextId, role |-> "user", content |-> f.text, mode |-> f.mode,
                  attachments |-> f.attachments, isPartial |-> FALSE, isError |-> FALSE]
      ss1 == addMessage(ss, f.sessionId, userMsg)
      effectiveMode == EffectiveMode(f.model, f.mode)
      placeholder == [id |-> nextId + 1, role |-> "assistant", content |-> <<>>,
                      mode |-> effectiveMode, attachments |-> <<>>,
                      isPartial |-> TRUE, isError |-> FALSE]
      allMessages == Append(f.closureMsgs, userMsg)
      apiMessages == <<[role |-> "system", content |-> systemContent]>> \o Reduce(allMessages)
      isText == effectiveMode \notin {"image", "video"}
  IN [sessions |-> addMessage(ss1, f.sessionId, placeholder),
      frame |-> [Frame(IF isText THEN "stream" ELSE effectiveMode, <<>>, "text", <<>>,
                       NoModel, <<>>, f.sessionId)
                 EXCEPT !.userId = nextId, !.assistantId = nextId + 1,
                        !.apiMessages = IF isText THEN apiMessages ELSE <<>>],
      abortRef |-> IF isText THEN k ELSE abortRef,
      requests |-> IF isText THEN requests + 1 ELSE requests]

\* handleSend(text, mode, attachments) invoked on the store ss by a handler whose
\* render saw closureMsgs as activeSession.messages
handleSend(ss, text, mode, attachments, closureMsgs, selectedModel, balance) ==
  LET cost == computePollenCost(PricingOf(selectedModel), estimateTokens(text), 0)
      k == Len(calls) + 1
  IN IF selectedModel = NoModel \/ (Trim(text) = <<>> /\ attachments = <<>>)
       THEN /\ sessions' = ss
            /\ UNCHANGED <<activeSessionId, isStreaming, abortRef, calls, requests, nextId>>
     ELSE IF autoReadBalance /\ balance # NoBalance /\ ~hasSufficientPollen(balance, cost)
       THEN /\ sessions' = ss
            /\ UNCHANGED <<activeSessionId, isStreaming, abortRef, calls, requests, nextId>>
     ELSE IF activeSessionId = NoId
       THEN /\ sessions' = ss
            /\ calls' = Append(calls, Frame("creating", text, mode, attachments,
                                            selectedModel, <<>>, NoId))
            /\ UNCHANGED <<activeSessionId, isStreaming, abortRef, requests, nextId>>
     ELSE LET r == SendBody(ss, k, Frame("start", text, mode, attachments, selectedModel,
                                         closureMsgs, activeSessionId))
          IN /\ sessions' = r.sessions
             /\ calls' = Append(calls, r.frame)
             /\ isStreaming' = TRUE
             /\ abortRef' = r.abortRef
             /\ requests' = r.requests
             /\ nextId' = nextId + 2
             /\ UNCHANGED activeSessionId

\* ---------------------------------------------------------------- handlers
StreamInit ==
  /\ wire = <<>> /\ pos = 0 /\ buffer = <<>> /\ lastUsage = "none" /\ lastTier = "none"
  /\ cbs = <<>> /\ signal = FALSE /\ spc = "idle"

Init ==
  /\ sessions = <<>>
  /\ activeSessionId = NoId
  /\ isStreaming = FALSE
  /\ abortRef = 0
  /\ calls = <<>>
  /\ requests = 0
  /\ nextId = 1
  /\ lastOp = "init"
  /\ saved = <<>> /\ settled = <<>> /\ awaiting = {}
  /\ args = <<>> /\ result = <<>>
  /\ StreamInit

\* MessageList renders every message except an empty partial one
Rendered(m) == ~(m.isPartial /\ m.content = <<>>)
RenderedIds(role) ==
  { ActiveMessages[i].id : i \in { j \in DOMAIN ActiveMessages :
        Rendered(ActiveMessages[j]) /\ ActiveMessages[j].role = role } }

\* Composer.handleSend / handleKeyDown, then ChatPage.handleSend
\* the pollen gate of handleSend turns the send away: notifyError, return
PollenGate(text, selectedModel, balance) ==
  /\ autoReadBalance /\ balance # NoBalance
  /\ ~hasSufficientPollen(balance, computePollenCost(PricingOf(selectedModel), estimateTokens(text), 0))

\* useTokenMeter: the estimate of history, system prompt and composer text
\* against the selected model's input limit
DEFAULT_MAX_INPUT == 128000
MaxInputTokensOf(model) ==
  IF "maxInputTokens" \in DOMAIN model THEN model.maxInputTokens ELSE DEFAULT_MAX_INPUT
TotalInputTokens(history, composerText) ==
  estimateMessagesTokens(Reduce(history))
    + (IF systemPrompt # <<>> THEN estimateTokens(systemPrompt) + 4 ELSE 0)
    + estimateTokens(composerText) + 4
IsOverLimit(history, composerText, model) ==
  TotalInputTokens(history, composerText) > MaxInputTokensOf(model)

ComposerSend(text, mode, attachments, selectedModel, balance) ==
  /\ lastOp' = IF /\ ~isStreaming /\ ~(Trim(text) = <<>> /\ attachments = <<>>)
                  /\ IsOverLimit(ActiveMessages, text, selectedModel)
                 THEN "overLimit"
               ELSE IF /\ ~isStreaming /\ ~(Trim(text) = <<>> /\ attachments = <<>>)
                  /\ selectedModel # NoModel
                  /\ PollenGate(Trim(text), selectedModel, balance)
                 THEN "notifyError" ELSE "send"
  /\ IF \/ isStreaming
        \/ (Trim(text) = <<>> /\ attachments = <<>>)
        \/ IsOverLimit(ActiveMessages, text, selectedModel)
       THEN UNCHANGED <<sessions, activeSessionId, isStreaming, abortRef, calls, requests,
                        nextId>>
       ELSE handleSend(sessions, Trim(text), ComposerMode(selectedModel, mode), attachments,
                       ActiveMessages, selectedModel, balance)
  /\ UNCHANGED <<streamVars, libVars, storeVars>>

\* createSession up to setActiveSessionId: the session is saved, listed first and active
CreateSessionSaved(k) ==
  /\ lastOp' = "createSession"
  /\ calls[k].pc = "creating"
  /\ sessions' = <<[id |-> nextId, title |-> <<"New Chat">>, messages |-> <<>>,
                    totalPollenSpent |-> 0]>> \o sessions
  /\ activeSessionId' = nextId
  /\ nextId' = nextId + 1
  /\ calls' = [calls EXCEPT ![k].pc = "created", ![k].sessionId = nextId]
  /\ UNCHANGED <<isStreaming, abortRef, requests, streamVars, libVars, storeVars>>

\* createSession returns into handleSend, which runs on to its request
CreateSessionReturn(k) ==
  /\ lastOp' = "sendResumed"
  /\ calls[k].pc = "created"
  /\ LET r == SendBody(sessions, k, calls[k])
     IN /\ sessions' = r.sessions
        /\ calls' = [calls EXCEPT ![k] = r.frame]
        /\ isStreaming' = TRUE
        /\ abortRef' = r.abortRef
        /\ requests' = r.requests
        /\ nextId' = nextId + 2
  /\ UNCHANGED <<activeSessionId, streamVars, libVars, storeVars>>

\* content: chunk instead of content: accum
OnChunk_DeltaOnly(ss, f, delta) ==
  updateMessage(ss, f.sessionId, f.assistantId, [content |-> delta, isPartial |-> TRUE])

\* the update sent to whichever session is active when the chunk arrives
OnChunk_ActiveSession(ss, f, delta) ==
  updateMessage(ss, activeSessionId, f.assistantId,
                [content |-> f.accum \o delta, isPartial |-> TRUE])

\* the onChunk callback of handleSend
OnChunk(ss, f, delta) ==
  updateMessage(ss, f.sessionId, f.assistantId,
                [content |-> f.accum \o delta, isPartial |-> TRUE])

StreamChunk(k) ==
  /\ lastOp' = "chunk"
  /\ calls[k].pc = "stream"
  /\ Len(calls[k].chunks) < MaxChunks
  /\ LET delta == Delta(Len(calls[k].chunks) + 1) IN
     /\ sessions' = OnChunk(sessions, calls[k], delta)
     /\ calls' = [calls EXCEPT ![k].accum = @ \o delta, ![k].chunks = Append(@, delta)]
  /\ UNCHANGED <<activeSessionId, isStreaming, abortRef, requests,
                 nextId, streamVars, libVars, storeVars>>

\* the onDone callback of handleSend
OnDone(ss, f) ==
  updateMessage(ss, f.sessionId, f.assistantId, [content |-> f.accum, isPartial |-> FALSE])

\* streamGeneration resolves: onDone, then the finally block
StreamDone(k) ==
  /\ lastOp' = "done"
  /\ calls[k].pc = "stream"
  /\ sessions' = OnDone(sessions, calls[k])
  /\ calls' = [calls EXCEPT ![k] = Returned]
  /\ isStreaming' = FALSE
  /\ abortRef' = 0
  /\ UNCHANGED <<activeSessionId, requests, nextId, streamVars, libVars, storeVars>>

\* the AbortError branch flagging the message as an error
CatchAbort_AsError(ss, f) ==
  updateMessage(ss, f.sessionId, f.assistantId,
                [content |-> f.accum \o CancelMarker, isPartial |-> FALSE, isError |-> TRUE])

\* the error branch leaving isError unset
CatchError_NoFlag(ss, f, err) ==
  IF f.accum = <<>>
  THEN updateMessage(ss, f.sessionId, f.assistantId,
                     [content |-> extractFriendlyError(err, "text"), isPartial |-> FALSE])
  ELSE ss

\* the catch block of the text path
CatchAbort(ss, f) ==
  updateMessage(ss, f.sessionId, f.assistantId,
                [content |-> f.accum \o CancelMarker, isPartial |-> FALSE])

CatchError(ss, f, err) ==
  IF f.accum = <<>>
  THEN updateMessage(ss, f.sessionId, f.assistantId,
                     [content |-> extractFriendlyError(err, "text"),
                      isPartial |-> FALSE, isError |-> TRUE])
  ELSE ss

\* streamGeneration rejects with a non-abort error: an HTTP-level error before the
\* body is read, or a transport failure at any point
StreamError(k, err) ==
  /\ lastOp' = "error"
  /\ calls[k].pc = "stream"
  /\ err \in HttpErrors => calls[k].chunks = <<>>
  /\ sessions' = CatchError(sessions, calls[k], err)
  /\ calls' = [calls EXCEPT ![k] = Returned]
  /\ isStreaming' = FALSE
  /\ abortRef' = 0
  /\ UNCHANGED <<activeSessionId, requests, nextId, streamVars, libVars, storeVars>>

\* handleCancel: abortRef.current?.abort().  The pending fetch or read rejects with
\* AbortError and the catch and finally blocks run before any other event; an abort
\* that lands while an error body is being read is swallowed and the HTTP error
\* is thrown instead
\* the controller kept for the image and video requests as well: Cancel ends whichever
\* generation is in flight
AbortCurrent_AnyRequest ==
  /\ lastOp' = "cancel"
  /\ IF \E k \in DOMAIN calls : calls[k].pc \in {"stream", "image", "video"}
       THEN LET k == CHOOSE n \in DOMAIN calls : calls[n].pc \in {"stream", "image", "video"}
            IN /\ sessions' = CatchAbort(sessions, calls[k])
               /\ calls' = [calls EXCEPT ![k] = Returned]
               /\ isStreaming' = FALSE
               /\ abortRef' = 0
       ELSE UNCHANGED <<sessions, calls, isStreaming, abortRef>>
  /\ UNCHANGED <<activeSessionId, requests, nextId, streamVars, libVars, storeVars>>

AbortCurrent ==
  /\ lastOp' = "cancel"
  /\ IF abortRef = 0 \/ calls[abortRef].pc # "stream"
       THEN UNCHANGED <<sessions, calls, isStreaming, abortRef>>
       ELSE /\ \/ sessions' = CatchAbort(sessions, calls[abortRef])
               \/ /\ calls[abortRef].chunks = <<>>
                  /\ \E err \in HttpErrors :
                       sessions' = CatchError(sessions, calls[abortRef], err)
            /\ calls' = [calls EXCEPT ![abortRef] = Returned]
            /\ isStreaming' = FALSE
            /\ abortRef' = 0
  /\ UNCHANGED <<activeSessionId, requests, nextId, streamVars, libVars, storeVars>>

\* the Cancel button, which the composer shows while isStreaming
handleCancel == isStreaming /\ AbortCurrent

\* handleCancel reached while the composer shows Send
CancelIdle == ~isStreaming /\ AbortCurrent

\* generateImage / generateVideo settles: try, catch and finally of the media path
MediaSettle(k, ok, err) ==
  /\ lastOp' = "mediaSettled"
  /\ calls[k].pc \in {"image", "video"}
  /\ sessions' =
       IF ok
       THEN updateMessage(sessions, calls[k].sessionId, calls[k].assistantId,
              [content |-> IF calls[k].pc = "image" THEN ImageSuccess ELSE VideoSuccess,
               isPartial |-> FALSE,
               attachments |-> <<IF calls[k].pc = "image" THEN "generated.png"
                                 ELSE "generated.mp4">>])
       ELSE updateMessage(sessions, calls[k].sessionId, calls[k].assistantId,
              [content |-> extractFriendlyError(err, calls[k].pc),
               isPartial |-> FALSE, isError |-> TRUE])
  /\ calls' = [calls EXCEPT ![k] = Returned]
  /\ isStreaming' = FALSE
  /\ UNCHANGED <<activeSessionId, abortRef, requests, nextId,
                 streamVars, libVars, storeVars>>

\* handleRegenerate without `if (userMsg.role !== 'user') return`
handleRegenerate_NoRoleCheck(assistantMessageId, selectedModel, balance) ==
  /\ lastOp' = "regenerate"
  /\ LET msgs == ActiveMessages
         msgIndex == IndexOfMsg(msgs, assistantMessageId)
     IN IF activeSessionId = NoId \/ ~HasSession(sessions, activeSessionId) \/ isStreaming
             \/ msgIndex <= 1
          THEN UNCHANGED <<sessions, activeSessionId, isStreaming, abortRef, calls, requests,
                           nextId>>
          ELSE handleSend(deleteMessagesFrom(sessions, activeSessionId, assistantMessageId),
                          msgs[msgIndex - 1].content, msgs[msgIndex - 1].mode,
                          msgs[msgIndex - 1].attachments, msgs, selectedModel, balance)
  /\ UNCHANGED <<streamVars, libVars, storeVars>>

handleRegenerate(assistantMessageId, selectedModel, balance) ==
  /\ lastOp' = "regenerate"
  /\ LET msgs == ActiveMessages
         msgIndex == IndexOfMsg(msgs, assistantMessageId)
     IN IF activeSessionId = NoId \/ ~HasSession(sessions, activeSessionId) \/ isStreaming
             \/ msgIndex <= 1 \/ msgs[msgIndex - 1].role # "user"
          THEN UNCHANGED <<sessions, activeSessionId, isStreaming, abortRef, calls, requests,
                           nextId>>
          ELSE handleSend(deleteMessagesFrom(sessions, activeSessionId, assistantMessageId),
                          msgs[msgIndex - 1].content, msgs[msgIndex - 1].mode,
                          msgs[msgIndex - 1].attachments, msgs, selectedModel, balance)
  /\ UNCHANGED <<streamVars, libVars, storeVars>>

handleEditAndRegenerate(userMessageId, newContent, selectedModel, balance) ==
  /\ lastOp' = "edit"
  /\ LET msgs == ActiveMessages
         msgIndex == IndexOfMsg(msgs, userMessageId)
     IN IF activeSessionId = NoId \/ ~HasSession(sessions, activeSessionId) \/ isStreaming
             \/ msgIndex = 0
          THEN UNCHANGED <<sessions, activeSessionId, isStreaming, abortRef, calls, requests,
                           nextId>>
          ELSE handleSend(deleteMessagesFrom(sessions, activeSessionId, userMessageId),
                          newContent, msgs[msgIndex].mode, msgs[msgIndex].attachments, msgs,
                          selectedModel, balance)
  /\ UNCHANGED <<streamVars, libVars, storeVars>>

\* handleRegenerate reached with the id of no message, on a log it could be looked up in
RegenerateUnknownId ==
  /\ ~isStreaming
  /\ ActiveMessages # <<>>
  /\ handleRegenerate(nextId, CHOOSE m \in Models : TRUE, NoBalance)

handleDeleteMessage(messageId) ==
  /\ lastOp' = "delete"
  /\ activeSessionId # NoId
  /\ sessions' = deleteMessage(sessions, activeSessionId, messageId)
  /\ UNCHANGED <<activeSessionId, isStreaming, abortRef, calls,
                 requests, nextId, streamVars, libVars, storeVars>>

\* the handlers that invoke handleSend are followed for MaxCalls invocations
Next ==
  \/ /\ Len(calls) < MaxCalls
     /\ \E in \in ComposerInputs, m \in Modes, model \in Models, b \in Balances :
          ComposerSend(in.text, m, in.attachments, model, b)
  \/ \E k \in DOMAIN calls : CreateSessionSaved(k)
  \/ \E k \in DOMAIN calls : CreateSessionReturn(k)
  \/ \E k \in DOMAIN calls : StreamChunk(k)
  \/ \E k \in DOMAIN calls : StreamDone(k)
  \/ \E k \in DOMAIN calls, err \in HttpErrors \cup {TypeError} : StreamError(k, err)
  \/ handleCancel
  \/ \E k \in DOMAIN calls, ok \in BOOLEAN, err \in HttpErrors : MediaSettle(k, ok, err)
  \/ /\ Len(calls) < MaxCalls
     /\ \E id \in RenderedIds("assistant"), model \in Models, b \in Balances :
          handleRegenerate(id, model, b)
  \/ /\ Len(calls) < MaxCalls
     /\ \E id \in RenderedIds("user"), c \in EditTexts, model \in Models, b \in Balances :
          handleEditAndRegenerate(id, c, model, b)
  \/ \E id \in RenderedIds("user") \cup RenderedIds("assistant") : handleDeleteMessage(id)

Spec == Init /\ [][Next]_vars

\* The same handlers followed one invocation further, for a user who types one text,
\* keeps one text model selected and whose balance is unknown or exhausted.
NarrowModel == CHOOSE m \in Models : m.type = "text" /\ m.outputModalities = {"text"}
NarrowNext ==
  \/ /\ Len(calls) < MaxCalls + 1
     /\ \E b \in {NoBalance, 0} : ComposerSend(<<"h">>, "text", <<>>, NarrowModel, b)
  \/ \E k \in DOMAIN calls : CreateSessionSaved(k)
  \/ \E k \in DOMAIN calls : CreateSessionReturn(k)
  \/ \E k \in DOMAIN calls : StreamChunk(k)
  \/ \E k \in DOMAIN calls : StreamDone(k)
  \/ /\ Len(calls) < MaxCalls + 1
     /\ \E id \in RenderedIds("assistant"), b \in {NoBalance, 0} :
          handleRegenerate(id, NarrowModel, b)
  \/ RegenerateUnknownId
  \/ /\ Len(calls) < MaxCalls + 1
     /\ \E id \in RenderedIds("user"), c \in EditTexts, b \in {NoBalance, 0} :
          handleEditAndRegenerate(id, c, NarrowModel, b)
  \/ \E id \in RenderedIds("user") \cup RenderedIds("assistant") : handleDeleteMessage(id)

NarrowSpec == Init /\ [][NarrowNext]_vars

\* The handlers followed one invocation further for text and image generations
\* that run side by side.
ImageModel == CHOOSE m \in Models : m.type = "image"
MediaNext ==
  \/ /\ Len(calls) < MaxCalls + 1
     /\ \E model \in {NarrowModel, ImageModel} :
          ComposerSend(<<"h">>, "text", <<>>, model, NoBalance)
  \/ \E k \in DOMAIN calls : CreateSessionSaved(k)
  \/ \E k \in DOMAIN calls : CreateSessionReturn(k)
  \/ \E k \in DOMAIN calls : StreamDone(k)
  \/ \E k \in DOMAIN calls, ok \in BOOLEAN, err \in HttpErrors : MediaSettle(k, ok, err)
  \/ /\ Len(calls) < MaxCalls + 1
     /\ \E id \in RenderedIds("user"), c \in EditTexts, model \in {NarrowModel, ImageModel} :
          handleEditAndRegenerate(id, c, model, NoBalance)
  \/ handleCancel
  \/ CancelIdle

MediaSpec == Init /\ [][MediaNext]_vars

\* The handlers for a user who keeps a text model with a small input limit
\* selected: the first exchange fits, a second message does not.
MaxInput == 16
LimitModel ==
  [name |-> "small", type |-> "text", outputModalities |-> {"text"}, promptTextTokens |-> 0,
   maxInputTokens |-> MaxInput]
LimitNext ==
  \/ /\ Len(calls) < MaxCalls + 1
     /\ ComposerSend(<<"h">>, "text", <<>>, LimitModel, NoBalance)
  \/ \E k \in DOMAIN calls : CreateSessionSaved(k)
  \/ \E k \in DOMAIN calls : CreateSessionReturn(k)
  \/ \E k \in DOMAIN calls : StreamChunk(k)
  \/ \E k \in DOMAIN calls : StreamDone(k)
  \/ /\ Len(calls) < MaxCalls + 1
     /\ \E id \in RenderedIds("assistant") : handleRegenerate(id, LimitModel, NoBalance)

LimitSpec == Init /\ [][LimitNext]_vars

\* The sidebar: switchSession on a listed chat, and New chat (handleNewChat,
\* createSession up to setActiveSessionId)
switchSession(id) ==
  /\ lastOp' = "switchSession"
  /\ activeSessionId' = id
  /\ UNCHANGED <<sessions, isStreaming, abortRef, calls, requests, nextId,
                 streamVars, libVars, storeVars>>

handleNewChat ==
  /\ lastOp' = "newChat"
  /\ sessions' = <<[id |-> nextId, title |-> <<"New Chat">>, messages |-> <<>>,
                    totalPollenSpent |-> 0]>> \o sessions
  /\ activeSessionId' = nextId
  /\ nextId' = nextId + 1
  /\ UNCHANGED <<isStreaming, abortRef, calls, requests, streamVars, libVars, storeVars>>

\* The handlers for a user who moves between chats while generations stream.
MaxChats == 3
SwitchNext ==
  \/ /\ Len(calls) < MaxCalls
     /\ ComposerSend(<<"h">>, "text", <<>>, NarrowModel, NoBalance)
  \/ \E k \in DOMAIN calls : CreateSessionSaved(k)
  \/ \E k \in DOMAIN calls : CreateSessionReturn(k)
  \/ \E k \in DOMAIN calls : StreamChunk(k)
  \/ \E k \in DOMAIN calls : StreamDone(k)
  \/ \E k \in DOMAIN calls, err \in HttpErrors \cup {TypeError} : StreamError(k, err)
  \/ handleCancel
  \/ \E i \in DOMAIN sessions : switchSession(sessions[i].id)
  \/ Len(sessions) < MaxChats /\ handleNewChat

SwitchSpec == Init /\ [][SwitchNext]_vars

\* ---------------------------------------------------------------- streamGeneration
\* The response body is a sequence of symbols: "\n", the prefix "data: ", one symbol
\* per JSON payload, ":" (a comment line) and " " (white space).  A read delivers
\* any non-empty run of them, so a line can arrive split over two reads.
MaxLines == 3       \* lines in a response body

NL == "\n"
DONE == "[DONE]"

\* StreamDelta of a payload that JSON.parse accepts
StreamDelta(content, usage, tier) == [content |-> content, usage |-> usage, user_tier |-> tier]
JsonPayloads ==
  [p \in {"{x}", "{y}", "{}", "{u1}", "{y,u2,pro}"} |->
     CASE p = "{x}"        -> StreamDelta("x", "none", "none")
       [] p = "{y}"        -> StreamDelta("y", "none", "none")
       [] p = "{}"         -> StreamDelta("", "none", "none")
       [] p = "{u1}"       -> StreamDelta("", "u1", "none")
       [] p = "{y,u2,pro}" -> StreamDelta("y", "u2", "pro")]
Malformed == "{bad"

BodyLines ==
  { <<"data: ", p>> : p \in DOMAIN JsonPayloads \cup {Malformed, DONE} } \cup { <<>>, <<":">> }

\* a body: up to MaxLines newline-terminated lines, then possibly a last line that
\* the server did not terminate
Bodies ==
  { Flatten([i \in DOMAIN ls |-> Append(ls[i], NL)]) \o tail :
      ls \in UNION { [1..m -> BodyLines] : m \in 0..MaxLines },
      tail \in { <<>>, <<"data: ", "{u1}">>, <<"data: ", "{x}">>, <<"data: ", DONE>>,
                 <<"data: ">> } }

\* String.prototype.split('\n'): the pieces between the newlines, at least one
RECURSIVE Split(_)
Split(str) ==
  IF \A i \in DOMAIN str : str[i] # NL THEN << str >>
  ELSE LET i == CHOOSE j \in DOMAIN str : str[j] = NL /\ \A h \in 1..(j - 1) : str[h] # NL
       IN << SubSeq(str, 1, i - 1) >> \o Split(SubSeq(str, i + 1, Len(str)))

Last(sq) == sq[Len(sq)]
Front(sq) == SubSeq(sq, 1, Len(sq) - 1)

OnChunkCall(text) == [cb |-> "onChunk", text |-> text, usage |-> "none", tier |-> "none"]
OnDoneCall(usage, tier) == [cb |-> "onDone", text |-> "", usage |-> usage, tier |-> tier]

\* JSON.parse's exception escaping the loop: the stream stops at the malformed frame
ProcessLine_MalformedAborts(st, line) ==
  LET trimmed == Trim(line)
  IN IF st.returned THEN st
     ELSE IF trimmed = <<>> \/ trimmed = <<":">> THEN st
     ELSE IF trimmed = <<"data: ", DONE>>
       THEN [st EXCEPT !.cbs = Append(@, OnDoneCall(st.lastUsage, st.lastTier)),
                       !.returned = TRUE]
     ELSE IF Head(trimmed) = "data: "
       THEN IF Len(trimmed) = 2 /\ trimmed[2] \in DOMAIN JsonPayloads
            THEN LET json == JsonPayloads[trimmed[2]]
                 IN [st EXCEPT
                       !.lastUsage = IF json.usage # "none" THEN json.usage ELSE @,
                       !.lastTier = IF json.user_tier # "none" THEN json.user_tier ELSE @,
                       !.cbs = IF json.content # "" THEN Append(@, OnChunkCall(json.content))
                               ELSE @]
            ELSE [st EXCEPT !.returned = TRUE]
     ELSE st

\* the body of the for loop over the lines of one read; st.returned is set by the
\* return on "data: [DONE]" and ends the loop
ProcessLine(st, line) ==
  LET trimmed == Trim(line)
  IN IF st.returned THEN st
     ELSE IF trimmed = <<>> \/ trimmed = <<":">> THEN st
     ELSE IF trimmed = <<"data: ", DONE>>
       THEN [st EXCEPT !.cbs = Append(@, OnDoneCall(st.lastUsage, st.lastTier)),
                       !.returned = TRUE]
     ELSE IF Head(trimmed) = "data: "
       THEN IF Len(trimmed) = 2 /\ trimmed[2] \in DOMAIN JsonPayloads
            THEN LET json == JsonPayloads[trimmed[2]]
                 IN [st EXCEPT
                       !.lastUsage = IF json.usage # "none" THEN json.usage ELSE @,
                       !.lastTier = IF json.user_tier # "none" THEN json.user_tier ELSE @,
                       !.cbs = IF json.content # "" THEN Append(@, OnChunkCall(json.content))
                               ELSE @]
            ELSE st      \* JSON.parse throws: skip malformed chunks
     ELSE st

RECURSIVE ProcessLines(_, _)
ProcessLines(st, lines) ==
  IF lines = <<>> THEN st ELSE ProcessLines(ProcessLine(st, Head(lines)), Tail(lines))

StreamSpecInit ==
  /\ sessions = <<>> /\ activeSessionId = NoId /\ isStreaming = FALSE /\ abortRef = 0
  /\ calls = <<>> /\ requests = 0 /\ nextId = 1 /\ lastOp = "init"
  /\ wire \in Bodies
  /\ pos = 0 /\ buffer = <<>> /\ lastUsage = "none" /\ lastTier = "none"
  /\ cbs = <<>> /\ signal = FALSE /\ spc = "idle"
  /\ saved = <<>> /\ settled = <<>> /\ awaiting = {}
  /\ args = <<>> /\ result = <<>>

\* fetch resolves with a streaming response: res.ok, an event-stream content type, a body
FetchOk ==
  /\ spc = "idle"
  /\ spc' = "reading"
  /\ UNCHANGED <<orchVars, storeVars, libVars, wire, pos, buffer, lastUsage, lastTier, cbs, signal>>

\* fetch rejects (network) or resolves with a response that has no body; or it
\* resolves with an HTTP error or a JSON response with status 200, whose body
\* streamGeneration then awaits: res.json().catch(() => null)
FetchFails(how) ==
  /\ spc = "idle"
  /\ spc' = CASE how = "network" -> "threw TypeError"
             [] how = "nobody" -> "threw PollinationsError"
             [] OTHER -> "errorBody"
  /\ UNCHANGED <<orchVars, storeVars, libVars, wire, pos, buffer, lastUsage, lastTier, cbs, signal>>

\* res.json() settles (with the body or with null): throw new PollinationsError
ErrorBodyRead ==
  /\ spc = "errorBody"
  /\ spc' = "threw PollinationsError"
  /\ UNCHANGED <<orchVars, storeVars, libVars, wire, pos, buffer, lastUsage, lastTier, cbs, signal>>

\* one iteration of the while loop with done = false: reader.read() delivers n symbols
ReadChunk(n) ==
  /\ spc = "reading"
  /\ n \in 1..(Len(wire) - pos)
  /\ LET lines == Split(buffer \o SubSeq(wire, pos + 1, pos + n))
         st == ProcessLines([lastUsage |-> lastUsage, lastTier |-> lastTier, cbs |-> cbs,
                             returned |-> FALSE], Front(lines))
     IN /\ buffer' = Last(lines)
        /\ lastUsage' = st.lastUsage
        /\ lastTier' = st.lastTier
        /\ cbs' = st.cbs
        /\ spc' = IF st.returned THEN "returned" ELSE "reading"
  /\ pos' = pos + n
  /\ UNCHANGED <<orchVars, storeVars, libVars, wire, signal>>

\* reader.read() reports done: break, then the onDone after the loop
ReadEnd ==
  /\ spc = "reading"
  /\ pos = Len(wire)
  /\ cbs' = Append(cbs, OnDoneCall(lastUsage, lastTier))
  /\ spc' = "returned"
  /\ UNCHANGED <<orchVars, storeVars, libVars, wire, pos, buffer, lastUsage, lastTier, signal>>

\* reader.read() rejects: the connection broke
ReadFails ==
  /\ spc = "reading"
  /\ spc' = "threw TypeError"
  /\ UNCHANGED <<orchVars, storeVars, libVars, wire, pos, buffer, lastUsage, lastTier, cbs, signal>>

\* the signal is aborted: the pending fetch or read rejects with AbortError; a
\* pending res.json() rejects too, which its catch turns into a null body
Aborted ==
  /\ spc \in {"idle", "reading", "errorBody"}
  /\ signal' = TRUE
  /\ spc' = IF spc = "errorBody" THEN "threw PollinationsError" ELSE "threw AbortError"
  /\ UNCHANGED <<orchVars, storeVars, libVars, wire, pos, buffer, lastUsage, lastTier, cbs>>

StreamNext ==
  \/ FetchOk
  \/ \E how \in {"network", "http", "json200", "nobody"} : FetchFails(how)
  \/ ErrorBodyRead
  \/ \E n \in 1..(Len(wire) - pos) : ReadChunk(n)
  \/ ReadEnd
  \/ ReadFails
  \/ Aborted

StreamSpec == StreamSpecInit /\ [][StreamNext]_vars

\* ================================================================ useLocalSession alone
\* The store hook driven directly: every operation is its whole setSessions callback,
\* with the updatedAt stamp and the saveSession call it makes.
MaxSaved == 5
MaxTime == 1

NoTitle == <<"undefined">>
DefaultTitle == <<"New Chat">>
ExplicitTitles == { <<"T">> }
Repeat(x, n) == [i \in 1..n |-> x]
StoreContents == { <<"h">>, Repeat("a", TITLE_LEN), Repeat("a", TITLE_LEN + 1) }
StoreRoles == {"user", "assistant"}

SessionIds(ss) == { ss[i].id : i \in DOMAIN ss }
MessageIds(ss, sid) == { MessagesOf(ss, sid)[i].id : i \in DOMAIN MessagesOf(ss, sid) }

\* Date.now(): never earlier than a stamp it has already given
Latest(ss) == IF ss = <<>> THEN 0
              ELSE CHOOSE t \in 0..MaxTime :
                     /\ \E i \in DOMAIN ss : ss[i].updatedAt = t
                     /\ \A i \in DOMAIN ss : ss[i].updatedAt <= t
Clock ==
  { t \in {Max(Latest(sessions), Latest(saved)), Max(Latest(sessions), Latest(saved)) + 1} :
      t <= MaxTime }

\* updatedAt: Date.now() in the session an operation rebuilt
Touch(ss, sid, t) == [i \in DOMAIN ss |-> IF ss[i].id = sid THEN [ss[i] EXCEPT !.updatedAt = t]
                                          ELSE ss[i]]
\* saveSession(updated), once for every session the callback rebuilt
Save(log, ss, sid) == IF HasSession(ss, sid) THEN Append(log, SessionOf(ss, sid)) ELSE log

renameSession(ss, id, title) ==
  [i \in DOMAIN ss |-> IF ss[i].id # id THEN ss[i] ELSE [ss[i] EXCEPT !.title = title]]

StoreFrame == <<activeSessionId, isStreaming, abortRef, calls, requests, streamVars, libVars, settled,
                awaiting>>

CreateSession(title, t) ==
  /\ lastOp' = "createSession"
  /\ LET session == [id |-> nextId,
                     title |-> IF title = NoTitle THEN DefaultTitle ELSE title,
                     messages |-> <<>>, updatedAt |-> t, totalPollenSpent |-> 0]
     IN /\ saved' = Append(saved, session)
        /\ sessions' = <<session>> \o sessions
        /\ activeSessionId' = nextId
  /\ nextId' = nextId + 1
  /\ UNCHANGED <<isStreaming, abortRef, calls, requests, streamVars, libVars, settled, awaiting>>

AddMessage(sessionId, role, content, t) ==
  /\ lastOp' = "addMessage"
  /\ sessions' = Touch(addMessage(sessions, sessionId,
                                  [id |-> nextId, role |-> role, content |-> content,
                                   mode |-> "text", attachments |-> <<>>,
                                   isPartial |-> role = "assistant" /\ content = <<>>,
                                   isError |-> FALSE]),
                       sessionId, t)
  /\ saved' = Save(saved, sessions', sessionId)
  /\ nextId' = nextId + 1
  /\ UNCHANGED StoreFrame

RenameSession(id, title, t) ==
  /\ lastOp' = "renameSession"
  /\ sessions' = Touch(renameSession(sessions, id, title), id, t)
  /\ saved' = Save(saved, sessions', id)
  /\ UNCHANGED <<nextId, StoreFrame>>

DeleteMessage(sessionId, messageId, t) ==
  /\ lastOp' = "deleteMessage"
  /\ sessions' = Touch(deleteMessage(sessions, sessionId, messageId), sessionId, t)
  /\ saved' = Save(saved, sessions', sessionId)
  /\ UNCHANGED <<nextId, StoreFrame>>

\* if (idx === -1) return s: neither stamped nor saved
DeleteMessagesFrom(sessionId, messageId, t) ==
  /\ lastOp' = "deleteMessagesFrom"
  /\ IF HasMsg(sessions, sessionId, messageId)
       THEN /\ sessions' = Touch(deleteMessagesFrom(sessions, sessionId, messageId),
                                 sessionId, t)
            /\ saved' = Save(saved, sessions', sessionId)
       ELSE /\ sessions' = deleteMessagesFrom(sessions, sessionId, messageId)
            /\ saved' = saved
  /\ UNCHANGED <<nextId, StoreFrame>>

MaxSessions == 2
MaxMsgs == 3

\* the operations are followed while fewer than MaxSaved sessions have been saved
StoreNext ==
  \/ /\ Len(saved) < MaxSaved /\ Len(sessions) < MaxSessions
     /\ \E title \in {NoTitle} \cup ExplicitTitles, t \in Clock : CreateSession(title, t)
  \/ /\ Len(saved) < MaxSaved
     /\ \E sid \in SessionIds(sessions), role \in StoreRoles, content \in StoreContents,
           t \in Clock :
          /\ Len(MessagesOf(sessions, sid)) < MaxMsgs
          /\ AddMessage(sid, role, content, t)
  \/ /\ Len(saved) < MaxSaved
     /\ \E sid \in SessionIds(sessions), title \in ExplicitTitles, t \in Clock :
          RenameSession(sid, title, t)
  \/ /\ Len(saved) < MaxSaved
     /\ \E sid \in SessionIds(sessions), t \in Clock :
          \E mid \in MessageIds(sessions, sid) \cup {nextId} : DeleteMessage(sid, mid, t)
  \/ /\ Len(saved) < MaxSaved
     /\ \E sid \in SessionIds(sessions), t \in Clock :
          \E mid \in MessageIds(sessions, sid) \cup {nextId} : DeleteMessagesFrom(sid, mid, t)

StoreSpec == Init /\ [][StoreNext]_vars

\* ================================================================ persistence
\* saveSession is not awaited by the store operations: its put completes later.
UpdateMessage(sessionId, messageId, update, t) ==
  /\ lastOp' = "updateMessage"
  /\ sessions' = Touch(updateMessage(sessions, sessionId, messageId, update), sessionId, t)
  /\ saved' = Save(saved, sessions', sessionId)
  /\ UNCHANGED <<nextId, StoreFrame>>

\* the requests made of the sessions store are logged in `saved`: a session stands for
\* the put of it, and db.delete(SESSIONS_STORE, id) and db.clear(SESSIONS_STORE) for
\* themselves
DeleteRequest(id) == [id |-> id, updatedAt |-> 0, request |-> "delete"]
ClearRequest == [id |-> NoId, updatedAt |-> 0, request |-> "clear"]
IsPut(r) == "messages" \in DOMAIN r
Removes(r, id) == ~IsPut(r) /\ (r.request = "clear" \/ r.id = id)

\* every storage function awaits the one dbPromise and then works in a transaction of
\* its own on the sessions store: continuations of one promise run in the order they
\* were attached and transactions on one store in the order they were created
IsSettled(i) == \E j \in DOMAIN settled : settled[j].call = i
Outcome(i) == settled[CHOOSE j \in DOMAIN settled : settled[j].call = i].ok

NextPut_AnyOrder(i) == i \in DOMAIN saved /\ ~IsSettled(i)

\* a getAll requested after the first k requests is served, and the function that
\* awaits it resumed, before a request made after it completes
ReadPending(k) ==
  [op |-> "load", call |-> k] \in awaiting \/ [op |-> "reload", call |-> k] \in awaiting

NextPut(i) ==
  /\ i \in DOMAIN saved /\ ~IsSettled(i)
  /\ \A h \in 1..(i - 1) : IsSettled(h)
  /\ \A k \in 0..(i - 1) : ~ReadPending(k)

\* db.put(SESSIONS_STORE, session) of the i-th saveSession completes
PutSettles(i) ==
  /\ lastOp' = "putSettled"
  /\ NextPut(i)
  /\ settled' = Append(settled, [call |-> i, ok |-> TRUE])
  /\ UNCHANGED <<sessions, activeSessionId, isStreaming, abortRef, calls, requests, nextId,
                 saved, awaiting, streamVars, libVars>>

\* getDB() or the request of the i-th storage call rejects (quota exceeded, engine
\* unavailable): the store stays as it was
PutFails(i) ==
  /\ lastOp' = "putFailed"
  /\ NextPut(i)
  /\ settled' = Append(settled, [call |-> i, ok |-> FALSE])
  /\ UNCHANGED <<sessions, activeSessionId, isStreaming, abortRef, calls, requests, nextId,
                 saved, awaiting, streamVars, libVars>>

\* the body of a storage function's try block, and its catch { console.warn(...) }
Try(ok) == IF ok THEN "returned" ELSE "threw"
Catch_Rethrows(outcome) == outcome
Catch(outcome) == IF outcome = "threw" THEN "returned" ELSE outcome

saveSession(ok) == Catch(Try(ok))
deleteSession(ok) == Catch(Try(ok))
clearAllSessions(ok) == Catch(Try(ok))
\* db.getAll sorted by updatedAt, latest first; [] from the catch
getAllSessions(ok, all) ==
  IF Try(ok) = "threw" THEN [outcome |-> Catch("threw"), value |-> <<>>]
  ELSE [outcome |-> "returned", value |-> all]

\* the sessions store as the first n requests leave it: under each key the session
\* of the last put that was stored and not removed since
StoredBy(id, n) ==
  { j \in DOMAIN settled :
      /\ settled[j].ok /\ settled[j].call <= n
      /\ IsPut(saved[settled[j].call]) /\ saved[settled[j].call].id = id
      /\ \A h \in (j + 1)..Len(settled) :
           ~(settled[h].ok /\ settled[h].call <= n /\ Removes(saved[settled[h].call], id)) }
PersistedBy(id, n) ==
  saved[settled[CHOOSE j \in StoredBy(id, n) : \A h \in StoredBy(id, n) : h <= j].call]
Stored(id) == StoredBy(id, Len(saved))
HasPersisted(id) == Stored(id) # {}
Persisted(id) == PersistedBy(id, Len(saved))

\* a call of the hook suspended at its await of storage call i
Await(op, i) == [op |-> op, call |-> i]
Resume(op, i) == Await(op, i) \in awaiting /\ IsSettled(i)
\* the awaited storage call threw: the rest of the hook's function is skipped
Rejected(op, i) ==
  /\ lastOp' = "rejected"
  /\ awaiting' = awaiting \ {Await(op, i)}
  /\ UNCHANGED <<sessions, activeSessionId, isStreaming, abortRef, calls, requests, nextId,
                 saved, settled, streamVars, libVars>>

\* createSession up to `await saveSession(session)`
CreateSessionStart(title, t) ==
  /\ lastOp' = "createSessionCalled"
  /\ saved' = Append(saved, [id |-> nextId,
                             title |-> IF title = NoTitle THEN DefaultTitle ELSE title,
                             messages |-> <<>>, updatedAt |-> t, totalPollenSpent |-> 0])
  /\ awaiting' = awaiting \cup {Await("createSession", Len(saved) + 1)}
  /\ nextId' = nextId + 1
  /\ UNCHANGED <<sessions, activeSessionId, isStreaming, abortRef, calls, requests,
                 streamVars, libVars, settled>>

\* the createSession calls that wait for their saveSession
Creating == { a.call : a \in { b \in awaiting : b.op = "createSession" } }

\* saveSession(session) without the await
CreateSessionFinish_BeforePut(i) ==
  /\ lastOp' = "createSession"
  /\ i \in Creating
  /\ sessions' = <<saved[i]>> \o sessions
  /\ activeSessionId' = saved[i].id
  /\ awaiting' = awaiting \ {Await("createSession", i)}
  /\ UNCHANGED <<isStreaming, abortRef, calls, requests, nextId, streamVars, libVars, saved, settled>>

\* createSession from setSessions on, once saveSession has settled
CreateSessionFinish(i) ==
  /\ Resume("createSession", i)
  /\ IF saveSession(Outcome(i)) = "threw" THEN Rejected("createSession", i)
     ELSE /\ lastOp' = "createSession"
          /\ sessions' = <<saved[i]>> \o sessions
          /\ activeSessionId' = saved[i].id
          /\ awaiting' = awaiting \ {Await("createSession", i)}
          /\ UNCHANGED <<isStreaming, abortRef, calls, requests, nextId, streamVars, libVars, saved,
                         settled>>

\* deleteSessionById up to `await deleteSessionFromDB(id)`
DeleteSessionStart(id) ==
  /\ lastOp' = "deleteSessionCalled"
  /\ saved' = Append(saved, DeleteRequest(id))
  /\ awaiting' = awaiting \cup {Await("deleteSession", Len(saved) + 1)}
  /\ UNCHANGED <<sessions, activeSessionId, isStreaming, abortRef, calls, requests, nextId,
                 streamVars, libVars, settled>>

\* deleteSessionById from setSessions on
DeleteSessionFinish(i) ==
  /\ Resume("deleteSession", i)
  /\ IF deleteSession(Outcome(i)) = "threw" THEN Rejected("deleteSession", i)
     ELSE /\ lastOp' = "deleteSession"
          /\ sessions' = SelectSeq(sessions, LAMBDA s : s.id # saved[i].id)
          /\ activeSessionId' = IF activeSessionId = saved[i].id THEN NoId ELSE activeSessionId
          /\ awaiting' = awaiting \ {Await("deleteSession", i)}
          /\ UNCHANGED <<isStreaming, abortRef, calls, requests, nextId, streamVars, libVars, saved,
                         settled>>

\* clearAll up to `await clearAllSessionsFromDB()`
ClearAllStart ==
  /\ lastOp' = "clearAllCalled"
  /\ saved' = Append(saved, ClearRequest)
  /\ awaiting' = awaiting \cup {Await("clearAll", Len(saved) + 1)}
  /\ UNCHANGED <<sessions, activeSessionId, isStreaming, abortRef, calls, requests, nextId,
                 streamVars, libVars, settled>>

\* clearAll from setSessions([]) on
ClearAllFinish(i) ==
  /\ Resume("clearAll", i)
  /\ IF clearAllSessions(Outcome(i)) = "threw" THEN Rejected("clearAll", i)
     ELSE /\ lastOp' = "clearAll"
          /\ sessions' = <<>>
          /\ activeSessionId' = NoId
          /\ awaiting' = awaiting \ {Await("clearAll", i)}
          /\ UNCHANGED <<isStreaming, abortRef, calls, requests, nextId, streamVars, libVars, saved,
                         settled>>

\* the updates a generation makes to its assistant message
StreamUpdates ==
  { [content |-> <<"x">>, isPartial |-> TRUE], [content |-> <<"x", "y">>, isPartial |-> TRUE],
    [content |-> <<"x", "y">>, isPartial |-> FALSE],
    [content |-> <<"failed">>, isPartial |-> FALSE, isError |-> TRUE] }

PersistNext ==
  \/ /\ Len(saved) < MaxSaved /\ Len(sessions) + Cardinality(Creating) < MaxSessions
     /\ \E t \in Clock : CreateSessionStart(NoTitle, t)
  \/ \E i \in DOMAIN saved : CreateSessionFinish(i)
  \/ /\ Len(saved) < MaxSaved
     /\ \E sid \in SessionIds(sessions), t \in Clock :
          /\ MessagesOf(sessions, sid) = <<>>
          /\ AddMessage(sid, "assistant", <<>>, t)
  \/ /\ Len(saved) < MaxSaved
     /\ \E sid \in SessionIds(sessions), t \in Clock, u \in StreamUpdates :
          \E mid \in MessageIds(sessions, sid) : UpdateMessage(sid, mid, u, t)
  \/ \E i \in DOMAIN saved : PutSettles(i)

PersistSpec == Init /\ [][PersistNext]_vars

\* ================================================================ a failing storage engine
\* The hook from its mount on, over a storage engine whose every request may fail.
StoredBefore ==
  [id |-> 1, title |-> <<"T">>, messages |-> <<>>, updatedAt |-> 0, totalPollenSpent |-> 0]

\* the mount effect has called getAllSessions; an earlier visit may have left a session
FailInit ==
  /\ sessions = <<>> /\ activeSessionId = NoId /\ isStreaming = FALSE /\ abortRef = 0
  /\ calls = <<>> /\ requests = 0 /\ lastOp = "init"
  /\ saved \in {<<>>, <<StoredBefore>>}
  /\ settled = [i \in DOMAIN saved |-> [call |-> i, ok |-> TRUE]]
  /\ nextId = Len(saved) + 1
  /\ awaiting = {Await("load", Len(saved))}
  /\ args = <<>> /\ result = <<>>
  /\ StreamInit

\* sessions.sort((a, b) => b.updatedAt - a.updatedAt) of what db.getAll returns
LatestFirst(S) ==
  { q \in [1..Cardinality(S) -> S] :
      /\ \A i, j \in DOMAIN q : i # j => q[i] # q[j]
      /\ \A i, j \in DOMAIN q : i < j => q[i].updatedAt >= q[j].updatedAt }

\* the mount effect from `const all = await getAllSessions()` to its next await: the read
\* sees the store as the requests made before it left it
LoadSessions(k, ok) ==
  /\ Await("load", k) \in awaiting /\ \A h \in 1..k : IsSettled(h)
  /\ \E all \in LatestFirst({ PersistedBy(id, k) : id \in { x \in 1..nextId : StoredBy(x, k) # {} } }) :
       LET r == getAllSessions(ok, all)
       IN IF r.outcome = "threw" THEN Rejected("load", k)
          ELSE /\ lastOp' = "load"
               /\ sessions' = r.value
               /\ awaiting' = (awaiting \ {Await("load", k)})
                                \cup {[op |-> "restore", call |-> k, all |-> r.value]}
               /\ UNCHANGED <<activeSessionId, isStreaming, abortRef, calls, requests, nextId,
                              saved, settled, streamVars, libVars>>

\* the mount effect from `const lastId = await getLastActiveSession()` on; the settings
\* store may hold any id or none
LoadActive(a, lastId) ==
  /\ a \in awaiting /\ a.op = "restore"
  /\ lastOp' = "loaded"
  /\ activeSessionId' = IF lastId # NoId /\ \E i \in DOMAIN a.all : a.all[i].id = lastId
                          THEN lastId
                        ELSE IF a.all # <<>> THEN a.all[1].id
                        ELSE activeSessionId
  /\ awaiting' = awaiting \ {a}
  /\ UNCHANGED <<sessions, isStreaming, abortRef, calls, requests, nextId, saved, settled,
                 streamVars, libVars>>

MaxRequests == 4
FailUpdates == { [content |-> <<"x">>, isPartial |-> FALSE] }

\* the hook is followed while fewer than MaxRequests requests were made of the store
FailNext ==
  \/ \E a \in awaiting, ok \in BOOLEAN : a.op = "load" /\ LoadSessions(a.call, ok)
  \/ \E a \in awaiting :
       /\ a.op = "restore"
       /\ \E lastId \in {NoId} \cup SessionIds(a.all) : LoadActive(a, lastId)
  \/ /\ Len(saved) < MaxRequests /\ Len(sessions) + Cardinality(Creating) < MaxSessions
     /\ \E t \in Clock : CreateSessionStart(NoTitle, t)
  \/ \E i \in DOMAIN saved : CreateSessionFinish(i)
  \/ /\ Len(saved) < MaxRequests
     /\ \E sid \in SessionIds(sessions), t \in Clock :
          /\ Len(MessagesOf(sessions, sid)) < MaxMsgs - 1
          /\ AddMessage(sid, "assistant", <<>>, t)
  \/ /\ Len(saved) < MaxRequests
     /\ \E sid \in SessionIds(sessions), t \in Clock, u \in FailUpdates :
          \E mid \in MessageIds(sessions, sid) : UpdateMessage(sid, mid, u, t)
  \/ /\ Len(saved) < MaxRequests
     /\ \E sid \in SessionIds(sessions), t \in Clock :
          \E mid \in MessageIds(sessions, sid) : DeleteMessagesFrom(sid, mid, t)
  \/ /\ Len(saved) < MaxRequests
     /\ \E id \in SessionIds(sessions) : DeleteSessionStart(id)
  \/ \E i \in DOMAIN saved : DeleteSessionFinish(i)
  \/ Len(saved) < MaxRequests /\ sessions # <<>> /\ ClearAllStart
  \/ \E i \in DOMAIN saved : ClearAllFinish(i)
  \/ \E i \in DOMAIN saved : PutSettles(i)
  \/ \E i \in DOMAIN saved : PutFails(i)

FailSpec == FailInit /\ [][FailNext]_vars

\* importSessions of a file that holds one session: up to `await saveSession(s)`
ImportSessionsStart(t) ==
  /\ lastOp' = "importSessionsCalled"
  /\ saved' = Append(saved, [id |-> nextId, title |-> <<"T">>, messages |-> <<>>,
                             updatedAt |-> t, totalPollenSpent |-> 0])
  /\ awaiting' = awaiting \cup {Await("importSessions", Len(saved) + 1)}
  /\ nextId' = nextId + 1
  /\ UNCHANGED <<sessions, activeSessionId, isStreaming, abortRef, calls, requests,
                 streamVars, libVars, settled>>

\* importSessions from the end of its loop to `await getAllSessions()`
ImportSessionsReload(i) ==
  /\ Resume("importSessions", i)
  /\ lastOp' = "importSessionsSaved"
  /\ awaiting' = (awaiting \ {Await("importSessions", i)}) \cup {Await("reload", Len(saved))}
  /\ UNCHANGED <<sessions, activeSessionId, isStreaming, abortRef, calls, requests, nextId,
                 saved, settled, streamVars, libVars>>

\* importSessions from setSessions(all) on
ImportSessionsFinish(k, ok) ==
  /\ Await("reload", k) \in awaiting /\ \A h \in 1..k : IsSettled(h)
  /\ \E all \in LatestFirst({ PersistedBy(id, k) : id \in { x \in 1..nextId : StoredBy(x, k) # {} } }) :
       /\ lastOp' = "reload"
       /\ sessions' = getAllSessions(ok, all).value
       /\ awaiting' = awaiting \ {Await("reload", k)}
       /\ UNCHANGED <<activeSessionId, isStreaming, abortRef, calls, requests, nextId,
                      saved, settled, streamVars, libVars>>

\* The hook from its mount for a user who starts a chat while the startup load
\* is under way, and who imports a file; the engine works.
LoadNext ==
  \/ \E a \in awaiting : a.op = "load" /\ LoadSessions(a.call, TRUE)
  \/ \E a \in awaiting :
       /\ a.op = "restore"
       /\ \E lastId \in {NoId} \cup SessionIds(a.all) : LoadActive(a, lastId)
  \/ /\ Len(saved) < MaxRequests /\ Len(sessions) + Cardinality(Creating) < MaxSessions
     /\ \E t \in Clock : CreateSessionStart(NoTitle, t)
  \/ \E i \in DOMAIN saved : CreateSessionFinish(i)
  \/ /\ Len(saved) < MaxRequests
     /\ \E sid \in SessionIds(sessions), t \in Clock :
          /\ Len(MessagesOf(sessions, sid)) < MaxMsgs - 2
          /\ AddMessage(sid, "assistant", <<>>, t)
  \/ /\ Len(saved) < MaxRequests
     /\ \E sid \in SessionIds(sessions), t \in Clock, u \in FailUpdates :
          \E mid \in MessageIds(sessions, sid) : UpdateMessage(sid, mid, u, t)
  \/ /\ Len(saved) < MaxRequests
     /\ \A a \in awaiting : a.op \notin {"importSessions", "reload"}
     /\ \E t \in Clock : ImportSessionsStart(t)
  \/ \E i \in DOMAIN saved : ImportSessionsReload(i)
  \/ \E a \in awaiting : a.op = "reload" /\ ImportSessionsFinish(a.call, TRUE)
  \/ \E i \in DOMAIN saved : PutSettles(i)

LoadSpec == FailInit /\ [][LoadNext]_vars

\* ================================================================ the library functions
\* generateImage and generateVideo, from the response fetch resolved with on.
SMALL_BLOB == 10000
Statuses == {200, 400, 500}
ContentTypes == {"application/json", "image/png", "video/mp4", "text/plain", ""}
BlobSizes == {SMALL_BLOB - 1, SMALL_BLOB}
\* what the payload is when read as text: no JSON at all, or the JSON text of
\* {error: {message, code}}, {error: "Bad Request", message}, {error: "Internal Server
\* Error", message}, {message}, {detail}, or null
BlobBodies == {"binary", "errorObject", "badRequest", "serverError", "messageOnly", "detailOnly",
               "null"}
Responses == [status : Statuses, contentType : ContentTypes, size : BlobSizes, body : BlobBodies]

ResOk(res) == res.status \in 200..299
\* ct.includes('application/json')
IncludesJson(ct) == ct = "application/json"
\* blob.type.startsWith('image/'), blob.type.startsWith('video/')
StartsWith(ct, kind) ==
  (kind = "image" /\ ct = "image/png") \/ (kind = "video" /\ ct = "video/mp4")
\* res.blob(): the payload with the response's content type as its type
BlobOf(res) == [type |-> res.contentType, size |-> res.size, body |-> res.body]

\* body.error and body.message of the parsed payload, "undefined" when absent
ErrorOf(body) == CASE body = "errorObject" -> "object"
                   [] body = "badRequest" -> "Bad Request"
                   [] body = "serverError" -> "Internal Server Error"
                   [] OTHER -> "undefined"
MessageOf(body) == IF body \in {"badRequest", "serverError", "messageOnly"} THEN "message"
                   ELSE "undefined"
\* res.json().catch(() => null) and JSON.parse(text): null when the payload is no JSON
IsJson(body) == body # "binary"

parseApiError(body, fallback) ==
  IF ~IsJson(body) \/ body = "null" THEN fallback
  ELSE IF ErrorOf(body) = "object" THEN "error.message"
  ELSE IF MessageOf(body) # "undefined" THEN "message"
  ELSE IF ErrorOf(body) # "undefined" THEN "error"
  ELSE fallback

\* typeof errBody?.error === 'object' ? errBody?.error?.code ?? '' : otherwise
ErrorCodeOf(body, otherwise) == IF ErrorOf(body) = "object" THEN "error.code" ELSE otherwise

Thrown(message, status, code) ==
  [threw |-> "PollinationsError", message |-> message, status |-> status, code |-> code]
ReturnedBlob(blob) == [returned |-> blob]

\* the check of a small payload of another type: an error is thrown when the text
\* parses and has a truthy error or message; parsed.error of null throws a TypeError,
\* which the catch drops like a failed parse
SmallBlobError(body) ==
  IsJson(body) /\ body # "null" /\ (ErrorOf(body) # "undefined" \/ MessageOf(body) # "undefined")

GenerateMedia_NoBlobCheck(kind, res) ==
  IF ~ResOk(res) THEN Thrown("failed", res.status, "")
  ELSE IF IncludesJson(res.contentType) THEN Thrown("failed", 200, "unexpected_json")
  ELSE ReturnedBlob(BlobOf(res))

\* generateImage with kind = "image", generateVideo, the same text, with kind = "video"
GenerateMedia(kind, res) ==
  IF ~ResOk(res) THEN
    IF IncludesJson(res.contentType)
      THEN Thrown(parseApiError(res.body, <<kind, "generation failed", res.status>>), res.status,
                  ErrorCodeOf(res.body, ""))
    ELSE Thrown(<<kind, "generation failed", res.status>>, res.status, "")
  ELSE IF IncludesJson(res.contentType) THEN
    Thrown(parseApiError(res.body, <<"Unexpected JSON response from", kind, "endpoint">>), 200,
           ErrorCodeOf(res.body, "unexpected_json"))
  ELSE IF BlobOf(res).size < SMALL_BLOB /\ ~StartsWith(BlobOf(res).type, kind)
            /\ SmallBlobError(res.body) THEN
    Thrown(parseApiError(res.body, <<kind, "generation failed">>),
           IF ErrorOf(res.body) = "Bad Request" THEN 400 ELSE 500, "")
  ELSE ReturnedBlob(BlobOf(res))

generateImage(res) == GenerateMedia("image", res)
generateVideo(res) == GenerateMedia("video", res)

\* computePollenCost, called with a pricing object or none and two token counts
Prices == {0, 1, 100}
TokenCounts == {0, 1, 500}
Pricings == {NoPricing} \cup [PricingFields -> Prices]
CostArgs == [pricing : Pricings, inputTokens : TokenCounts, outputTokens : TokenCounts]

\* hasSufficientPollen in floating point. A number is a binary floating-point number
\* with SIGNIFICAND bits of significand, counted in units of its smallest step; a sum
\* is rounded to the nearest such number, a tie to the one with the even significand.
SIGNIFICAND == 5
EPSILON == 17
RECURSIVE Pow2(_)
Pow2(n) == IF n = 0 THEN 1 ELSE 2 * Pow2(n - 1)
RECURSIVE Spacing(_)
\* the distance between x and the next number above it
Spacing(x) == IF x < Pow2(SIGNIFICAND) THEN 1 ELSE 2 * Spacing(x \div 2)
MaxFloat == Pow2(SIGNIFICAND + 2) - 1
Floats == { x \in 0..MaxFloat : x % Spacing(x) = 0 }
RoundNearest(x) ==
  LET lo == x - (x % Spacing(x))
      hi == lo + Spacing(x)
  IN IF x - lo < hi - x THEN lo
     ELSE IF x - lo > hi - x THEN hi
     ELSE IF (lo \div Spacing(x)) % 2 = 0 THEN lo ELSE hi

\* the comparison made strict and the tolerance dropped
hasSufficientPollenFP_Strict(balance, requiredPollen) == balance > requiredPollen

\* balance + EPSILON >= requiredPollen
hasSufficientPollenFP(balance, requiredPollen) ==
  RoundNearest(balance + EPSILON) >= requiredPollen

\* ---------------------------------------------------------------------------
\* Export and import (lib/exportImport.ts).  A document is the sequence of its
\* characters; a text (id, title, content) is a sequence of characters too.
\* ---------------------------------------------------------------------------

MaxText == 2
TextChars == {"a", "n", "\"", "\\", "\n"}
Texts == UNION { [1..n -> TextChars] : n \in 0..MaxText }
PlainTexts == {<<"a">>, <<"\"">>}
ExportDates == {<<"0">>, <<"1">>}
ExportRoles == {"user", "assistant", "system"}

\* the text of a role name
RoleText(role) ==
  IF role = "user" THEN <<"u", "s", "e", "r">>
  ELSE IF role = "assistant" THEN <<"a", "s", "s", "i", "s", "t", "a", "n", "t">>
  ELSE <<"s", "y", "s", "t", "e", "m">>

\* JSON values: a string, an array, or an object (its members in insertion order)
Str(s) == [t |-> "str", v |-> s]
Arr(xs) == [t |-> "arr", v |-> xs]
Obj(members) == [t |-> "obj", v |-> members]

KeyVersion == <<"v", "e", "r", "s", "i", "o", "n">>
KeyExportedAt == <<"e", "x", "p", "o", "r", "t", "e", "d", "A", "t">>
KeySessions == <<"s", "e", "s", "s", "i", "o", "n", "s">>
KeyId == <<"i", "d">>
KeyTitle == <<"t", "i", "t", "l", "e">>
KeyMessages == <<"m", "e", "s", "s", "a", "g", "e", "s">>
KeyRole == <<"r", "o", "l", "e">>
KeyContent == <<"c", "o", "n", "t", "e", "n", "t">>

HasKey(obj, key) == \E i \in DOMAIN obj.v : obj.v[i][1] = key
\* the last member of that name, as property lookup does
GetKey(obj, key) ==
  obj.v[CHOOSE i \in DOMAIN obj.v :
          /\ obj.v[i][1] = key
          /\ \A j \in DOMAIN obj.v : obj.v[j][1] = key => j <= i][2]

MessageValue(msg) ==
  Obj(<< <<KeyRole, Str(RoleText(msg.role))>>, <<KeyContent, Str(msg.content)>> >>)
SessionValue(s) ==
  Obj(<< <<KeyId, Str(s.id)>>, <<KeyTitle, Str(s.title)>>,
         <<KeyMessages, Arr([i \in DOMAIN s.messages |-> MessageValue(s.messages[i])])>> >>)

\* JSON.stringify of a string: quotes, with the quote, the backslash and the
\* newline escaped
EscapeChar_Raw(c) == <<c>>
EscapeChar(c) ==
  IF c = "\"" THEN <<"\\", "\"">>
  ELSE IF c = "\\" THEN <<"\\", "\\">>
  ELSE IF c = "\n" THEN <<"\\", "n">>
  ELSE <<c>>

RECURSIVE Escape(_)
Escape(s) == IF s = <<>> THEN <<>> ELSE EscapeChar(Head(s)) \o Escape(Tail(s))
Quote(s) == <<"\"">> \o Escape(s) \o <<"\"">>

\* JSON.stringify(value, null, 2): every element and member on a line of its
\* own, indented by two spaces per level
Indent(depth) == <<"\n">> \o [i \in 1..(2 * depth) |-> " "]
RECURSIVE JoinComma(_)
JoinComma(parts) ==
  IF parts = <<>> THEN <<>>
  ELSE IF Len(parts) = 1 THEN parts[1]
  ELSE parts[1] \o <<",">> \o JoinComma(Tail(parts))
RECURSIVE Stringify(_, _)
Stringify(val, depth) ==
  IF val.t = "str" THEN Quote(val.v)
  ELSE IF val.t = "arr" THEN
    IF Len(val.v) = 0 THEN <<"[", "]">>
    ELSE <<"[">>
           \o JoinComma([i \in DOMAIN val.v |->
                           Indent(depth + 1) \o Stringify(val.v[i], depth + 1)])
           \o Indent(depth) \o <<"]">>
  ELSE
    IF Len(val.v) = 0 THEN <<"{", "}">>
    ELSE <<"{">>
           \o JoinComma([i \in DOMAIN val.v |->
                           Indent(depth + 1) \o Quote(val.v[i][1]) \o <<":", " ">>
                             \o Stringify(val.v[i][2], depth + 1)])
           \o Indent(depth) \o <<"}">>

exportJSON(exported, now) ==
  Stringify(Obj(<< <<KeyVersion, Str(<<"1", ".", "0">>)>>,
                   <<KeyExportedAt, Str(now)>>,
                   <<KeySessions, Arr([i \in DOMAIN exported |-> SessionValue(exported[i])])>> >>),
            0)

\* JSON.parse: a parse step returns the value and the position after it, or
\* fails
ParseFails == [ok |-> FALSE]
Parsed(val, next) == [ok |-> TRUE, v |-> val, i |-> next]
RECURSIVE SkipSpace(_, _)
SkipSpace(s, i) ==
  IF i <= Len(s) /\ s[i] \in {" ", "\n"} THEN SkipSpace(s, i + 1) ELSE i
At(s, i, c) == i <= Len(s) /\ s[i] = c
RECURSIVE ParseString(_, _, _)
ParseString(s, i, acc) ==
  IF i > Len(s) THEN ParseFails
  ELSE IF s[i] = "\"" THEN Parsed(Str(acc), i + 1)
  ELSE IF s[i] = "\\" THEN
    IF At(s, i + 1, "\"") \/ At(s, i + 1, "\\")
      THEN ParseString(s, i + 2, Append(acc, s[i + 1]))
    ELSE IF At(s, i + 1, "n") THEN ParseString(s, i + 2, Append(acc, "\n"))
    ELSE ParseFails
  ELSE IF s[i] = "\n" THEN ParseFails
  ELSE ParseString(s, i + 1, Append(acc, s[i]))
RECURSIVE ParseValue(_, _)
RECURSIVE ParseElements(_, _, _)
RECURSIVE ParseMembers(_, _, _)
ParseValue(s, from) ==
  LET i == SkipSpace(s, from)
  IN IF At(s, i, "\"") THEN ParseString(s, i + 1, <<>>)
     ELSE IF At(s, i, "[") THEN
       IF At(s, SkipSpace(s, i + 1), "]")
         THEN Parsed(Arr(<<>>), SkipSpace(s, i + 1) + 1)
         ELSE ParseElements(s, i + 1, <<>>)
     ELSE IF At(s, i, "{") THEN
       IF At(s, SkipSpace(s, i + 1), "}")
         THEN Parsed(Obj(<<>>), SkipSpace(s, i + 1) + 1)
         ELSE ParseMembers(s, i + 1, <<>>)
     ELSE ParseFails
ParseElements(s, from, acc) ==
  LET e == ParseValue(s, from)
  IN IF ~e.ok THEN ParseFails
     ELSE IF At(s, SkipSpace(s, e.i), ",")
       THEN ParseElements(s, SkipSpace(s, e.i) + 1, Append(acc, e.v))
     ELSE IF At(s, SkipSpace(s, e.i), "]")
       THEN Parsed(Arr(Append(acc, e.v)), SkipSpace(s, e.i) + 1)
     ELSE ParseFails
ParseMembers(s, from, acc) ==
  LET k == SkipSpace(s, from)
      key == ParseString(s, k + 1, <<>>)
  IN IF ~At(s, k, "\"") THEN ParseFails
     ELSE IF ~key.ok THEN ParseFails
     ELSE IF ~At(s, SkipSpace(s, key.i), ":") THEN ParseFails
     ELSE LET e == ParseValue(s, SkipSpace(s, key.i) + 1)
          IN IF ~e.ok THEN ParseFails
             ELSE IF At(s, SkipSpace(s, e.i), ",")
               THEN ParseMembers(s, SkipSpace(s, e.i) + 1, Append(acc, <<key.v.v, e.v>>))
             ELSE IF At(s, SkipSpace(s, e.i), "}")
               THEN Parsed(Obj(Append(acc, <<key.v.v, e.v>>)), SkipSpace(s, e.i) + 1)
             ELSE ParseFails
JSONparse(raw) ==
  LET r == ParseValue(raw, 1)
  IN IF r.ok /\ SkipSpace(raw, r.i) > Len(raw) THEN r ELSE ParseFails

\* validateSessions: a session without a (non-empty) id or without an array of
\* messages is rejected
Falsy(val) == val.t = "str" /\ Len(val.v) = 0
InvalidSession(s) ==
  \/ s.t # "obj"
  \/ ~HasKey(s, KeyId)
  \/ ~HasKey(s, KeyMessages)
  \/ Falsy(GetKey(s, KeyId))
  \/ GetKey(s, KeyMessages).t # "arr"
validateSessions(list) == \A i \in DOMAIN list : ~InvalidSession(list[i])

importJSON(raw) ==
  LET parsed == JSONparse(raw)
  IN IF ~parsed.ok THEN [threw |-> "Invalid JSON format"]
     ELSE IF parsed.v.t = "obj" /\ HasKey(parsed.v, KeyVersion) /\ HasKey(parsed.v, KeySessions)
       THEN IF GetKey(parsed.v, KeySessions).t # "arr"
              THEN [threw |-> "Invalid export: sessions must be an array"]
            ELSE IF ~validateSessions(GetKey(parsed.v, KeySessions).v)
              THEN [threw |-> "Invalid session: missing id or messages"]
            ELSE [returned |-> GetKey(parsed.v, KeySessions).v]
     ELSE IF parsed.v.t = "arr"
       THEN IF ~validateSessions(parsed.v.v)
              THEN [threw |-> "Invalid session: missing id or messages"]
              ELSE [returned |-> parsed.v.v]
     ELSE [threw |-> "Unrecognized import format"]

\* the sessions handed to an export: one session whose title and one message
\* range over every text, and lists of up to two sessions of up to two messages
SeqsUpTo(S, n) == UNION { [1..k -> S] : k \in 0..n }
ExportIds == {<<"s">>, <<"t">>}
RichSessions ==
  [id : {<<"s">>}, title : Texts,
   messages : [1..1 -> [role : ExportRoles, content : Texts]]]
PlainSessions ==
  [id : ExportIds, title : PlainTexts,
   messages : SeqsUpTo([role : {"user", "assistant"}, content : PlainTexts], 2)]
Exports == [1..1 -> RichSessions] \cup SeqsUpTo(PlainSessions, 2)

\* ---------------------------------------------------------------------------
\* Markdown export and import.  A Markdown text is the sequence of its lines (the
\* text is the lines joined by newlines), a line the sequence of its characters.
\* ---------------------------------------------------------------------------

MdHeader ==
  <<"#", " ", "P", "o", "l", "l", "i", "n", "a", "t", "i", "o", "n", "s",
    " ", "C", "h", "a", "t", " ", "E", "x", "p", "o", "r", "t">>
MdHeaderStart == SubSeq(MdHeader, 1, 14)
H2 == <<"#", "#", " ">>
H3 == <<"#", "#", "#", " ">>
Rule == <<"-", "-", "-">>
LabelYou == <<"*", "*", "Y", "o", "u", "*", "*">>
LabelAssistant == <<"*", "*", "A", "s", "s", "i", "s", "t", "a", "n", "t", "*", "*">>
LabelSystem == <<"*", "*", "S", "y", "s", "t", "e", "m", "*", "*">>
AttachmentsLine ==
  <<"*", "*", "A", "t", "t", "a", "c", "h", "m", "e", "n", "t", "s", ":", "*", "*">>
ImageStart == <<"!", "[">>
ImportedChat == <<"I", "m", "p", "o", "r", "t", "e", "d", " ", "C", "h", "a", "t", " ">>
DigitChars == <<"1", "2", "3", "4", "5", "6", "7", "8", "9">>

LineStartsWith(line, prefix) ==
  Len(line) >= Len(prefix) /\ SubSeq(line, 1, Len(prefix)) = prefix

\* `prefix${text}` pushed as one array element: the prefix goes before the
\* text's first line
Prefixed(prefix, text) == <<prefix \o Head(text)>> \o Tail(text)

AttachmentLine(att) ==
  IF att.type = "image"
    THEN ImageStart \o att.name \o <<"]", "(">> \o att.dataUrl \o <<")">>
    ELSE <<"-", " ">> \o att.name \o <<" ", "(">> \o <<"f", "i", "l", "e">>
           \o <<",", " ", "1", ".", "0", "K", "B", ")">>
MessageLines(msg, now) ==
  Prefixed(H3 \o (IF msg.role = "user" THEN LabelYou
                  ELSE IF msg.role = "assistant" THEN LabelAssistant
                  ELSE LabelSystem) \o <<" ", "_", "(">> \o now \o <<")", "_">>,
           << <<>>, <<>> >>)
    \o msg.content
    \o << <<>> >>
    \o (IF Len(msg.attachments) > 0
          THEN <<AttachmentsLine>>
                 \o [i \in DOMAIN msg.attachments |-> AttachmentLine(msg.attachments[i])]
                 \o << <<>> >>
          ELSE <<>>)
SessionLines(s, now) ==
  Prefixed(H2, s.title)
    \o << <<"*", "*", "M", "o", "d", "e", "l", ":", "*", "*", " ", "o", "p", "e", "n", "a", "i",
            " ", "|", " ", "*", "*", "C", "r", "e", "a", "t", "e", "d", ":", "*", "*", " ">> \o now,
          <<"*", "*", "P", "o", "l", "l", "e", "n", " ", "s", "p", "e", "n", "t", ":", "*", "*",
            " ", "0", ".", "0", "0", "0", "0", "0">>,
          <<>>,
          Rule, <<>> >>
    \o Flatten([i \in DOMAIN s.messages |-> MessageLines(s.messages[i], now)])
    \o << <<>>, Rule, <<>> >>
exportMarkdown(exported, now) ==
  << MdHeader,
     <<"_", "E", "x", "p", "o", "r", "t", "e", "d", " ", "a", "t", " ">> \o now \o <<"_">>,
     <<>> >>
    \o Flatten([i \in DOMAIN exported |-> SessionLines(exported[i], now)])

\* md.split(/^prefix/m): the pieces between the lines that start with the
\* prefix; a piece followed by a match ends with the newline before the match
RECURSIVE SplitAtLineStart(_, _, _, _)
SplitAtLineStart(lines, prefix, piece, pieces) ==
  IF lines = <<>> THEN Append(pieces, piece)
  ELSE IF LineStartsWith(Head(lines), prefix)
    THEN SplitAtLineStart(Tail(lines), prefix,
                          <<SubSeq(Head(lines), Len(prefix) + 1, Len(Head(lines)))>>,
                          Append(pieces, Append(piece, <<>>)))
    ELSE SplitAtLineStart(Tail(lines), prefix, Append(piece, Head(lines)), pieces)
\* .filter(Boolean): the empty string goes
NonEmptyPieces(pieces) == SelectSeq(pieces, LAMBDA p : p # << <<>> >>)
SplitMd(lines, prefix) == NonEmptyPieces(SplitAtLineStart(lines, prefix, <<>>, <<>>))

\* String.prototype.trim on one line, and on a text of several lines
IsBlank(line) == \A i \in DOMAIN line : line[i] = " "
RECURSIVE TrimStart(_)
TrimStart(line) ==
  IF line # <<>> /\ Head(line) = " " THEN TrimStart(Tail(line)) ELSE line
RECURSIVE TrimEnd(_)
TrimEnd(line) ==
  IF line # <<>> /\ line[Len(line)] = " " THEN TrimEnd(SubSeq(line, 1, Len(line) - 1)) ELSE line
RECURSIVE DropBlankStart(_)
DropBlankStart(lines) ==
  IF lines # <<>> /\ IsBlank(Head(lines)) THEN DropBlankStart(Tail(lines)) ELSE lines
RECURSIVE DropBlankEnd(_)
DropBlankEnd(lines) ==
  IF lines # <<>> /\ IsBlank(lines[Len(lines)])
    THEN DropBlankEnd(SubSeq(lines, 1, Len(lines) - 1)) ELSE lines
TrimText(lines) ==
  LET body == DropBlankEnd(DropBlankStart(lines))
  IN IF body = <<>> THEN << <<>> >>
     ELSE IF Len(body) = 1 THEN <<TrimEnd(TrimStart(body[1]))>>
     ELSE <<TrimStart(body[1])>> \o SubSeq(body, 2, Len(body) - 1) \o <<TrimEnd(body[Len(body)])>>

\* one `### ` block: the role from its first line, the content from the rest
ImportedMessage(msgBlock) ==
  [role |-> IF LineStartsWith(msgBlock[1], LabelAssistant) THEN "assistant"
            ELSE IF LineStartsWith(msgBlock[1], LabelSystem) THEN "system"
            ELSE "user",
   content |-> TrimText(SelectSeq(Tail(msgBlock),
                              LAMBDA l : /\ ~LineStartsWith(l, AttachmentsLine)
                                         /\ ~LineStartsWith(l, ImageStart)))]
\* one `## ` block, the i-th of the document
ImportedSession(block, i) ==
  [title |-> IF Len(block) >= 2 /\ block[1] # <<>>
               THEN TrimEnd(TrimStart(block[1]))
               ELSE ImportedChat \o <<DigitChars[i]>>,
   messages |-> SelectSeq([k \in DOMAIN Tail(SplitMd(block, H3)) |->
                             ImportedMessage(Tail(SplitMd(block, H3))[k])],
                          LAMBDA m : m.content # << <<>> >>)]
importMarkdown(md) ==
  LET sessionBlocks == SplitMd(md, H2)
      startIdx == IF sessionBlocks # <<>> /\ LineStartsWith(sessionBlocks[1][1], MdHeaderStart)
                    THEN 1 ELSE 0
      found == SelectSeq([k \in 1..(Len(sessionBlocks) - startIdx) |->
                            ImportedSession(sessionBlocks[k + startIdx], k + startIdx - 1)],
                         LAMBDA s : Len(s.messages) > 0)
  IN IF found = <<>> THEN [threw |-> "No valid chat sessions found in Markdown"]
     ELSE [returned |-> found]

\* the sessions handed to a Markdown export; a text is its lines
MdLines == { <<"a">>, <<"b">>, <<>>, <<" ", "a">>, H2 \o <<"a">>, H3 \o <<"a">>, ImageStart \o <<"a">> }
MdTexts == { <<l>> : l \in MdLines } \cup { <<"a">> } \X { <<"b">>, <<>> }
MdAttachments ==
  { <<>> } \cup { <<[type |-> t, name |-> <<"f">>, dataUrl |-> <<"d">>]>> : t \in {"image", "file"} }
MdMessages ==
  [role : ExportRoles, content : MdTexts, attachments : { <<>> }]
    \cup [role : {"user"}, content : { << <<"a">> >> }, attachments : MdAttachments]
MdTitles == { << <<"a">> >>, << <<"a", " ">> >>, << <<>> >> }
MdSessions == [title : MdTitles, messages : SeqsUpTo(MdMessages, 2)]
PlainMdSessions ==
  [title : { << <<"a">> >>, << <<"b">> >> },
   messages : SeqsUpTo([role : {"user", "assistant"}, content : { << <<"a">> >>, << <<"b">> >> },
                        attachments : { <<>> }], 1)]
MdExports == [1..1 -> MdSessions] \cup SeqsUpTo(PlainMdSessions, 2)

\* ---------------------------------------------------------------------------
\* Token estimates of a message list and its truncation (lib/tokenizer.ts)
\* ---------------------------------------------------------------------------

RemoveAt(s, i) == SubSeq(s, 1, i - 1) \o SubSeq(s, i + 1, Len(s))
RECURSIVE TruncateLoop(_, _, _)
TruncateLoop(current, removed, maxTokens) ==
  IF estimateMessagesTokens(current) > maxTokens /\ Len(current) > 1
    THEN TruncateLoop(RemoveAt(current, IF current[1].role = "system" THEN 2 ELSE 1),
                      removed + 1, maxTokens)
    ELSE [messages |-> current, removed |-> removed]
truncateMessages(messages, maxTokens) ==
  IF Len(messages) = 0 THEN [messages |-> <<>>, removed |-> 0]
  ELSE TruncateLoop(messages, 0, maxTokens)

MaxTruncated == 3
TokenLimits == {0, 8, 14, 100}
TruncateContents == { <<"a">>, <<"a", "a", "a", "a", "a", "a">> }
TruncateInputs ==
  UNION { [1..n -> [role : ExportRoles, content : TruncateContents]] : n \in 1..MaxTruncated }

\* a library function is about to be called with arguments of its domain
LibCalls ==
  [fn : {"generateImage", "generateVideo"}, res : Responses]
    \cup [fn : {"computePollenCost"}, cost : CostArgs]
    \cup [fn : {"hasSufficientPollen"}, balance : Floats, requiredPollen : Floats]
    \cup [fn : {"importJSON"}, exported : Exports, now : ExportDates]
    \cup [fn : {"importMarkdown"}, exported : MdExports, now : ExportDates]
    \cup [fn : {"truncateMessages"}, messages : TruncateInputs, maxTokens : TokenLimits]
Pending == <<>>

LibInit ==
  /\ sessions = <<>> /\ activeSessionId = NoId /\ isStreaming = FALSE /\ abortRef = 0
  /\ calls = <<>> /\ requests = 0 /\ nextId = 1 /\ lastOp = "init"
  /\ saved = <<>> /\ settled = <<>> /\ awaiting = {}
  /\ args \in LibCalls /\ result = Pending
  /\ StreamInit

LibFrame == <<orchVars, streamVars, storeVars, args>>

CallGenerateImage ==
  /\ result = Pending /\ args.fn = "generateImage"
  /\ result' = generateImage(args.res)
  /\ UNCHANGED LibFrame

CallGenerateVideo ==
  /\ result = Pending /\ args.fn = "generateVideo"
  /\ result' = generateVideo(args.res)
  /\ UNCHANGED LibFrame

CallComputePollenCost ==
  /\ result = Pending /\ args.fn = "computePollenCost"
  /\ result' = [returned |-> computePollenCost(args.cost.pricing, args.cost.inputTokens,
                                               args.cost.outputTokens)]
  /\ UNCHANGED LibFrame

CallHasSufficientPollen ==
  /\ result = Pending /\ args.fn = "hasSufficientPollen"
  /\ result' = [returned |-> hasSufficientPollenFP(args.balance, args.requiredPollen)]
  /\ UNCHANGED LibFrame

CallImportJSON ==
  /\ result = Pending /\ args.fn = "importJSON"
  /\ result' = importJSON(exportJSON(args.exported, args.now))
  /\ UNCHANGED LibFrame

CallImportMarkdown ==
  /\ result = Pending /\ args.fn = "importMarkdown"
  /\ result' = importMarkdown(exportMarkdown(args.exported, args.now))
  /\ UNCHANGED LibFrame

CallTruncateMessages ==
  /\ result = Pending /\ args.fn = "truncateMessages"
  /\ result' = truncateMessages(args.messages, args.maxTokens)
  /\ UNCHANGED LibFrame

LibNext ==
  \/ CallGenerateImage
  \/ CallGenerateVideo
  \/ CallComputePollenCost
  \/ CallHasSufficientPollen
  \/ CallImportJSON
  \/ CallImportMarkdown
  \/ CallTruncateMessages

LibSpec == LibInit /\ [][LibNext]_vars

\* ================================================================ properties
InFlight(f) == f.pc \in {"stream", "image", "video"}
InFlightIn(cs, sid) == { k \in DOMAIN cs : InFlight(cs[k]) /\ cs[k].sessionId = sid }
AllIds == 1..nextId
SameMessage(m, u) ==
  /\ m.role = u.role /\ m.content = u.content /\ m.mode = u.mode
  /\ m.attachments = u.attachments
IsPlaceholder(m) ==
  m.role = "assistant" /\ m.content = <<>> /\ m.isPartial /\ m.attachments = <<>>
Admitted(model, b, text) ==
  ~(autoReadBalance /\ b # NoBalance /\ b < Max(model.promptTextTokens * Len(text),
                                                 MIN_POLLEN_PER_PROMPT))

\* C1: while a generation is in flight for a session (its placeholder exists and is
\* not finalized), no step appends a message to that session or starts another
\* generation for it, so at most one generation is in flight per session.
C1_SendWhileInFlightIsNoOp ==
  [][\A i \in DOMAIN sessions :
       InFlightIn(calls, sessions[i].id) # {} =>
         /\ Len(MessagesOf(sessions', sessions[i].id)) <= Len(sessions[i].messages)
         /\ InFlightIn(calls', sessions[i].id) \subseteq InFlightIn(calls, sessions[i].id)]_vars

\* C2: once no generation is in flight for a session any more, none of its messages
\* has isPartial = true: every placeholder was finalized when its generation ended.
C2_NoPartialAfterGeneration ==
  \A i \in DOMAIN sessions :
    InFlightIn(calls, sessions[i].id) = {} =>
      \A j \in DOMAIN sessions[i].messages : ~sessions[i].messages[j].isPartial

\* C3: regenerate on assistant message m, whose predecessor u is a user message,
\* removes m and everything after it, keeps the log up to and including u, and
\* re-invokes Send with u's content, mode and attachments: when Send admits the
\* request the log continues with a user message carrying exactly those and a
\* placeholder, and when Send rejects it (balance) nothing is appended.
C3_RegenerateTruncatesAndResends ==
  [][\A id \in AllIds, model \in Models, b \in Balances :
       LET msgs == ActiveMessages
           i == IndexOfMsg(msgs, id)
           new == MessagesOf(sessions', activeSessionId)
       IN (handleRegenerate(id, model, b) /\ ~isStreaming /\ i > 1
             /\ msgs[IF i > 1 THEN i - 1 ELSE 1].role = "user") =>
            /\ Len(new) >= i - 1
            /\ SubSeq(new, 1, i - 1) = SubSeq(msgs, 1, i - 1)
            /\ \A j \in i..Len(msgs), h \in DOMAIN new : new[h].id # msgs[j].id
            /\ IF Admitted(model, b, msgs[i - 1].content)
               THEN /\ Len(new) = i + 1
                    /\ SameMessage(new[i], msgs[i - 1])
                    /\ IsPlaceholder(new[i + 1])
               ELSE Len(new) = i - 1]_vars

C3_Witness ==
  /\ lastOp = "regenerate"
  /\ \E i \in DOMAIN sessions :
       LET ms == sessions[i].messages
       IN /\ Len(ms) = 3
          /\ ms[1].role = "user" /\ SameMessage(ms[2], ms[1]) /\ ms[1].attachments # <<>>
          /\ IsPlaceholder(ms[3])

\* C4: edit-and-regenerate on user message e with new content c leaves the messages
\* before e, then one user message with content c and e's mode and attachments,
\* then one assistant message.
C4_EditTruncatesAndResends ==
  [][\A id \in AllIds, c \in EditTexts, model \in Models, b \in Balances :
       LET msgs == ActiveMessages
           i == IndexOfMsg(msgs, id)
           new == MessagesOf(sessions', activeSessionId)
       IN (handleEditAndRegenerate(id, c, model, b) /\ ~isStreaming /\ i > 0) =>
            /\ Len(new) = i + 1
            /\ SubSeq(new, 1, i - 1) = SubSeq(msgs, 1, i - 1)
            /\ new[i].role = "user" /\ new[i].content = c
            /\ new[i].mode = msgs[i].mode /\ new[i].attachments = msgs[i].attachments
            /\ new[i + 1].role = "assistant"]_vars

\* C5: a Send that issues its text request (from the composer, regenerate or
\* edit-and-regenerate) sends one system message followed by the session log as it
\* stands when that Send runs and the new user message, each as {role, content}:
\* the list is the log after the Send without the placeholder.
C5_OutboundIsCurrentLog ==
  [][(lastOp' \in {"send", "regenerate", "edit"} /\ requests' = requests + 1) =>
       LET f == calls'[Len(calls')]
           log == MessagesOf(sessions', f.sessionId)
       IN f.apiMessages =
            <<[role |-> "system", content |-> systemContent]>> \o Reduce(Front(log))]_vars

\* C6: after the i-th chunk the assistant message holds d1 ++ ... ++ di with
\* isPartial = true, and after completion it holds d1 ++ ... ++ dn with
\* isPartial = false (as long as the message is still in the log).
C6_ChunksConcatenateInOrder ==
  [][\A k \in DOMAIN calls :
       LET f == calls[k]
           m == MsgOf(sessions', f.sessionId, f.assistantId)
       IN HasMsg(sessions', f.sessionId, f.assistantId) =>
            /\ StreamChunk(k) => m.content = Flatten(calls'[k].chunks) /\ m.isPartial
            /\ StreamDone(k) => m.content = Flatten(f.chunks) /\ ~m.isPartial]_vars

C6_Witness ==
  /\ lastOp = "done"
  /\ \E i \in DOMAIN sessions : \E j \in DOMAIN sessions[i].messages :
       LET m == sessions[i].messages[j]
       IN m.role = "assistant" /\ m.content = <<"x", "y">> /\ ~m.isPartial

\* C7: cancelling a text generation that has received at least one chunk finalizes
\* its message with the chunks received so far followed by the cancellation marker,
\* isPartial = false and isError not set.
C7_CancelAfterChunk ==
  [][(lastOp' = "cancel" /\ abortRef # 0) =>
       LET f == calls[IF abortRef # 0 THEN abortRef ELSE 1]
           m == MsgOf(sessions', f.sessionId, f.assistantId)
       IN (f.pc = "stream" /\ f.chunks # <<>>
             /\ HasMsg(sessions', f.sessionId, f.assistantId)) =>
            /\ m.content = Flatten(f.chunks) \o CancelMarker
            /\ ~m.isPartial /\ ~m.isError]_vars

C7_Witness ==
  /\ lastOp = "cancel"
  /\ \E i \in DOMAIN sessions : \E j \in DOMAIN sessions[i].messages :
       LET m == sessions[i].messages[j]
       IN m.content = <<"x">> \o CancelMarker /\ ~m.isPartial /\ ~m.isError

\* C8: a text generation that fails with a non-cancellation error after at least one
\* chunk keeps the accumulated content, has isPartial cleared and isError not set.
C8_ErrorAfterChunkClearsPartial ==
  [][\A k \in DOMAIN calls, err \in HttpErrors \cup {TypeError} :
       LET f == calls[k]
           m == MsgOf(sessions', f.sessionId, f.assistantId)
       IN (StreamError(k, err) /\ f.chunks # <<>>
             /\ HasMsg(sessions', f.sessionId, f.assistantId)) =>
            m.content = Flatten(f.chunks) /\ ~m.isPartial /\ ~m.isError]_vars

\* C9: a text generation that fails with a non-cancellation error before any chunk
\* has its placeholder's content replaced by the error message of the error's class,
\* with isError = true and isPartial = false.
ExpectedErrorText(err) ==
  IF err = TypeError THEN "not responding"
  ELSE IF err.status = 402 THEN "insufficient pollen"
  ELSE "returned an error"

C10_OnDoneOnceWithLastUsage ==
  LET IsDone(l) == Trim(l) = <<"data: ", DONE>>
      IsFrame(l) == Len(l) = 2 /\ l[1] = "data: " /\ l[2] \in DOMAIN JsonPayloads
      lines == Split(wire)
      stop == IF \E i \in DOMAIN lines : IsDone(lines[i])
              THEN CHOOSE i \in DOMAIN lines :
                     IsDone(lines[i]) /\ \A j \in 1..(i - 1) : ~IsDone(lines[j])
              ELSE Len(lines) + 1
      frames == { i \in 1..(stop - 1) : IsFrame(lines[i]) }
      LastOf(field) ==
        LET with == { i \in frames : JsonPayloads[lines[i][2]][field] # "none" }
        IN IF with = {} THEN "none"
           ELSE JsonPayloads[lines[CHOOSE i \in with : \A j \in with : j <= i][2]][field]
      dones == { i \in DOMAIN cbs : cbs[i].cb = "onDone" }
  IN /\ spc = "reading" => dones = {}
     /\ spc = "returned" =>
          /\ dones = {Len(cbs)}
          /\ Last(cbs).usage = LastOf("usage")
          /\ Last(cbs).tier = LastOf("user_tier")

\* C11: when a streamGeneration call has returned, the onChunk calls it made are
\* exactly the non-empty text deltas of the data frames the server sent before the
\* stream ended (the [DONE] marker, or the end of the body), one call per frame and
\* in the frames' order, however the body was split into reads and whether or not
\* its last line is newline-terminated.
C11_OnChunkPerFrame ==
  LET IsDone(l) == Trim(l) = <<"data: ", DONE>>
      IsFrame(l) == Len(l) = 2 /\ l[1] = "data: " /\ l[2] \in DOMAIN JsonPayloads
      lines == Split(wire)
      stop == IF \E i \in DOMAIN lines : IsDone(lines[i])
              THEN CHOOSE i \in DOMAIN lines :
                     IsDone(lines[i]) /\ \A j \in 1..(i - 1) : ~IsDone(lines[j])
              ELSE Len(lines) + 1
      sent == SelectSeq(SubSeq(lines, 1, stop - 1),
                        LAMBDA l : IsFrame(l) /\ JsonPayloads[l[2]].content # "")
      chunks == SelectSeq(cbs, LAMBDA c : c.cb = "onChunk")
  IN spc = "returned" =>
       /\ Len(chunks) = Len(sent)
       /\ \A i \in DOMAIN chunks : chunks[i].text = JsonPayloads[sent[i][2]].content

\* C12: once the cancel signal is asserted during a streamGeneration call, the call
\* makes no further onChunk call and no onDone call, and it terminates with the
\* abort outcome (the AbortError the orchestrator classifies as cancelled).
C12_AbortStopsCallbacks ==
  [][signal' => (cbs' = cbs /\ spc' = "threw AbortError")]_vars

C14_RegenerateWhileInFlightIsNoOp ==
  [][(lastOp' \in {"regenerate", "edit"} /\ InFlightIn(calls, activeSessionId) # {}) =>
       (sessions' = sessions /\ calls' = calls /\ requests' = requests)]_vars

\* C15: regenerate on a message id that is not in the log, that is the first entry
\* of the log, or whose preceding entry is not a user message is a no-op: the log is
\* unchanged and no Send is issued.
C15_RegenerateWithoutUserTurnIsNoOp ==
  [][lastOp' = "regenerate" =>
       \A id \in AllIds, b \in {NoBalance, 0} :
         LET msgs == ActiveMessages
             i == IndexOfMsg(msgs, id)
         IN ((i <= 1 \/ msgs[IF i > 1 THEN i - 1 ELSE 1].role # "user")
               /\ handleRegenerate(id, NarrowModel, b)) =>
              /\ sessions' = sessions /\ calls' = calls /\ requests' = requests
              /\ isStreaming' = isStreaming /\ nextId' = nextId]_vars

\* regenerate ran, idle, on a log whose assistant messages all lack a user turn
\* before them: the first entry, and one that follows another assistant message
C15_Witness ==
  /\ lastOp = "regenerate" /\ ~isStreaming
  /\ LET msgs == ActiveMessages
     IN /\ Len(msgs) = 2
        /\ \A j \in DOMAIN msgs : msgs[j].role = "assistant" /\ Rendered(msgs[j])

\* C16: deleteMessagesFrom with the id of the message at position i leaves exactly
\* the messages at the positions before i, in their order; with an id that matches
\* no message of the session it leaves the session (its messages and its updatedAt)
\* unchanged and hands nothing to saveSession.
C16_DeleteMessagesFromTruncates ==
  [][lastOp' = "deleteMessagesFrom" =>
       \A sid \in SessionIds(sessions), mid \in AllIds, t \in 0..MaxTime :
         DeleteMessagesFrom(sid, mid, t) =>
           LET old == MessagesOf(sessions, sid)
           IN /\ \A i \in DOMAIN old :
                   old[i].id = mid => MessagesOf(sessions', sid) = SubSeq(old, 1, i - 1)
              /\ (\A i \in DOMAIN old : old[i].id # mid) =>
                   /\ SessionOf(sessions', sid) = SessionOf(sessions, sid)
                   /\ saved' = saved]_vars

\* a log of three messages was cut at its second: the session saved last holds the
\* first message of the session saved before it
C16_Witness ==
  /\ lastOp = "deleteMessagesFrom" /\ Len(saved) >= 2
  /\ LET new == saved[Len(saved)]
         old == saved[Len(saved) - 1]
     IN /\ new.id = old.id /\ Len(old.messages) = 3
        /\ new.messages = SubSeq(old.messages, 1, 1)
        /\ MessagesOf(sessions, new.id) = new.messages

\* C18: addMessage puts the message at the tail of the session's log; when the log
\* was empty and the message is a user message, the title becomes the content if it
\* has at most 50 characters, and its first 50 characters followed by the ellipsis
\* if it has more; in every other case the title is unchanged.
C18_AddMessageAppendsAndTitles ==
  [][lastOp' = "addMessage" =>
       \A sid \in SessionIds(sessions), role \in StoreRoles, content \in StoreContents,
          t \in 0..MaxTime :
         AddMessage(sid, role, content, t) =>
           LET old == SessionOf(sessions, sid)
               new == SessionOf(sessions', sid)
               n == Len(old.messages)
           IN /\ Len(new.messages) = n + 1
              /\ SubSeq(new.messages, 1, n) = old.messages
              /\ new.messages[n + 1].role = role /\ new.messages[n + 1].content = content
              /\ IF n = 0 /\ role = "user"
                   THEN new.title = IF Len(content) > 50
                                      THEN SubSeq(content, 1, 50) \o <<"...">>
                                      ELSE content
                   ELSE new.title = old.title]_vars

\* a user message of 51 characters was appended to an empty log
C18_Witness ==
  /\ lastOp = "addMessage"
  /\ \E i \in DOMAIN sessions :
       /\ Len(sessions[i].messages) = 1
       /\ sessions[i].messages[1].role = "user"
       /\ Len(sessions[i].messages[1].content) = 51
       /\ Len(sessions[i].title) = 51 /\ sessions[i].title[51] = "..."

\* C19: a session whose title was set explicitly (createSession with a title,
\* renameSession) keeps that title when a user message is appended to its empty log.
C19_ExplicitTitleKept ==
  [][lastOp' = "addMessage" =>
       \A sid \in SessionIds(sessions), content \in StoreContents, t \in 0..MaxTime :
         (/\ AddMessage(sid, "user", content, t)
          /\ SessionOf(sessions, sid).title \in ExplicitTitles
          /\ SessionOf(sessions, sid).messages = <<>>) =>
           SessionOf(sessions', sid).title = SessionOf(sessions, sid).title]_vars

\* C20: deleteMessage removes exactly the entry with that id and leaves the other
\* messages of the session in their order; with an id that matches no message the
\* log is unchanged; every other session, and the order of the sessions, is unchanged.
C20_DeleteMessageRemovesOne ==
  [][lastOp' = "deleteMessage" =>
       \A sid \in SessionIds(sessions), mid \in AllIds, t \in 0..MaxTime :
         DeleteMessage(sid, mid, t) =>
           LET old == MessagesOf(sessions, sid)
               new == MessagesOf(sessions', sid)
           IN /\ \A i \in DOMAIN old :
                   old[i].id = mid => new = SubSeq(old, 1, i - 1) \o SubSeq(old, i + 1, Len(old))
              /\ (\A i \in DOMAIN old : old[i].id # mid) => new = old
              /\ Len(sessions') = Len(sessions)
              /\ \A j \in DOMAIN sessions :
                   /\ sessions'[j].id = sessions[j].id
                   /\ sessions[j].id # sid => sessions'[j] = sessions[j]]_vars

\* the middle one of three messages was deleted: the session saved last holds the
\* first and the third message of the session saved before it
C20_Witness ==
  /\ lastOp = "deleteMessage" /\ Len(saved) >= 2
  /\ LET new == saved[Len(saved)]
         old == saved[Len(saved) - 1]
     IN /\ new.id = old.id /\ Len(old.messages) = 3
        /\ new.messages = <<old.messages[1], old.messages[3]>>
        /\ MessagesOf(sessions, new.id) = new.messages

\* what one step does to the log of session sid: the positions of the old log whose
\* entry is gone
Removed(sid) ==
  { p \in DOMAIN MessagesOf(sessions, sid) :
      \A q \in DOMAIN MessagesOf(sessions', sid) :
        MessagesOf(sessions', sid)[q].id # MessagesOf(sessions, sid)[p].id }
\* the survivors keep their relative order and the new entries are all at the tail
OrderKept(sid) ==
  LET old == MessagesOf(sessions, sid)
      new == MessagesOf(sessions', sid)
  IN \A q1, q2 \in DOMAIN new :
       q1 < q2 =>
         LET p1 == IndexOfMsg(old, new[q1].id)
             p2 == IndexOfMsg(old, new[q2].id)
         IN /\ (p1 # 0 /\ p2 # 0) => p1 < p2
            /\ p1 = 0 => p2 = 0
\* the positions of the old log whose entry survives with a field changed
Updated(sid) ==
  { p \in DOMAIN MessagesOf(sessions, sid) :
      \E q \in DOMAIN MessagesOf(sessions', sid) :
        /\ MessagesOf(sessions', sid)[q].id = MessagesOf(sessions, sid)[p].id
        /\ MessagesOf(sessions', sid)[q] # MessagesOf(sessions, sid)[p] }
IsSuffix(R, n) == \A p \in R : \A r \in p..n : r \in R

AllPutsDone == Len(settled) = Len(saved)
StoreIsMemory ==
  \A i \in DOMAIN sessions :
    HasPersisted(sessions[i].id) /\ Persisted(sessions[i].id) = sessions[i]

C22_RejectedSendChangesNothing ==
  [][lastOp' \in {"send", "notifyError"} =>
       \A in \in ComposerInputs, m \in Modes, model \in Models, b \in Balances :
         (/\ autoReadBalance /\ b # NoBalance
          /\ b < computePollenCost(PricingOf(model), estimateTokens(Trim(in.text)), 0)
          /\ ComposerSend(in.text, m, in.attachments, model, b)) =>
           /\ sessions' = sessions /\ activeSessionId' = activeSessionId
           /\ calls' = calls /\ requests' = requests /\ nextId' = nextId
           /\ isStreaming' = isStreaming /\ abortRef' = abortRef
           /\ (~isStreaming /\ ~(Trim(in.text) = <<>> /\ in.attachments = <<>>)) =>
                lastOp' = "notifyError"]_vars

\* the first Send, with nothing stored yet, was turned away
C22_Witness ==
  lastOp = "notifyError" /\ sessions = <<>> /\ calls = <<>> /\ ~isStreaming /\ requests = 0

\* the modality the generation is due to run in, for a model and the mode selected
ResolvedModality(model, mode) ==
  IF model.type \in {"image", "video"} THEN model.type
  ELSE IF model.type = "text" /\ mode \in model.outputModalities THEN mode
  ELSE "text"

\* C23: a Send that starts a generation runs it in the native modality of an image
\* or video model whatever mode is selected, and for a text model in the selected
\* mode when the model's output modalities include it, in text otherwise: the
\* placeholder carries that modality and the request is the one of that modality.
C23_EffectiveModality ==
  [][lastOp' = "send" =>
       \A in \in ComposerInputs, m \in Modes, model \in Models, b \in Balances :
         (/\ ComposerSend(in.text, m, in.attachments, model, b)
          /\ Len(calls') > Len(calls)
          /\ InFlight(calls'[Len(calls')])) =>
           LET f == calls'[Len(calls')]
               want == ResolvedModality(model, m)
           IN /\ MsgOf(sessions', f.sessionId, f.assistantId).mode = want
              /\ f.pc = IF want \in {"image", "video"} THEN want ELSE "stream"]_vars

IsMedia(f) == f.pc \in {"image", "video"}

\* C24: a Send that takes the image or video path appends a partial assistant
\* placeholder with empty content and no attachments; the step in which the request
\* settles finalizes that message: on success isPartial = false, the success string
\* and exactly one attachment, on failure isPartial = false, isError = true, a
\* classified error text and no attachment; and a finalized image or video message
\* is never written again.
C24_MediaPlaceholderFinalizedOnce ==
  [][/\ \A k \in DOMAIN calls' :
          (IsMedia(calls'[k]) /\ (k \in DOMAIN calls => ~IsMedia(calls[k]))) =>
            LET msgs == MessagesOf(sessions', calls'[k].sessionId)
            IN /\ msgs # <<>> /\ msgs[Len(msgs)].id = calls'[k].assistantId
               /\ IsPlaceholder(msgs[Len(msgs)])
               /\ msgs[Len(msgs)].mode = calls'[k].pc
     /\ \A k \in DOMAIN calls :
          (IsMedia(calls[k]) /\ ~IsMedia(calls'[k])) =>
            /\ HasMsg(sessions', calls[k].sessionId, calls[k].assistantId)
            /\ LET m == MsgOf(sessions', calls[k].sessionId, calls[k].assistantId)
               IN /\ ~m.isPartial
                  /\ \/ /\ ~m.isError /\ Len(m.attachments) = 1
                        /\ m.content = IF calls[k].pc = "image" THEN ImageSuccess
                                       ELSE VideoSuccess
                     \/ /\ m.isError /\ m.attachments = <<>>
                        /\ \E err \in HttpErrors \cup {TypeError} :
                             m.content = extractFriendlyError(err, calls[k].pc)
     /\ \A i \in DOMAIN sessions : \A p \in DOMAIN sessions[i].messages :
          LET m == sessions[i].messages[p]
          IN (m.role = "assistant" /\ m.mode \in {"image", "video"} /\ ~m.isPartial
                /\ HasMsg(sessions', sessions[i].id, m.id)) =>
               MsgOf(sessions', sessions[i].id, m.id) = m]_vars

\* C25: Cancel never touches an image or video generation: its frame stays in flight
\* and its placeholder stays as it is; the only generation a Cancel ends is a text
\* stream.  With no text stream in flight (an image or video request pending, or
\* nothing at all) Cancel changes nothing: no message, not the in-flight flag, no
\* request.
C25_CancelOnlyStopsText ==
  [][lastOp' = "cancel" =>
       /\ requests' = requests /\ activeSessionId' = activeSessionId
       /\ Len(calls') = Len(calls)
       /\ \A k \in DOMAIN calls :
            calls[k].pc # "stream" =>
              /\ calls'[k] = calls[k]
              /\ (IsMedia(calls[k])
                    /\ HasMsg(sessions, calls[k].sessionId, calls[k].assistantId)) =>
                   /\ HasMsg(sessions', calls[k].sessionId, calls[k].assistantId)
                   /\ MsgOf(sessions', calls[k].sessionId, calls[k].assistantId)
                        = MsgOf(sessions, calls[k].sessionId, calls[k].assistantId)
       /\ (\A k \in DOMAIN calls : calls[k].pc # "stream") =>
            /\ sessions' = sessions /\ calls' = calls
            /\ isStreaming' = isStreaming /\ abortRef' = abortRef]_vars

\* Cancel was pressed while an image request, and nothing else, was pending
C25_Witness ==
  /\ lastOp = "cancel" /\ isStreaming
  /\ \E k \in DOMAIN calls :
       /\ calls[k].pc = "image"
       /\ HasMsg(sessions, calls[k].sessionId, calls[k].assistantId)
       /\ IsPlaceholder(MsgOf(sessions, calls[k].sessionId, calls[k].assistantId))
  /\ \A k \in DOMAIN calls : calls[k].pc \in {"image", "done"}

ClearedSince(i) ==
  \E j, h \in DOMAIN settled :
    /\ settled[j].call = i /\ j < h
    /\ settled[h].ok /\ Removes(saved[settled[h].call], saved[i].id)
SomeFailed == \E j \in DOMAIN settled : ~settled[j].ok
C27_StorageFailuresStayInside ==
  [][/\ lastOp' # "rejected"
     /\ lastOp' = "putFailed" => UNCHANGED <<sessions, activeSessionId>>
     /\ \A a \in awaiting :
          a.op = "load" /\ LoadSessions(a.call, FALSE) => lastOp' = "load" /\ sessions' = <<>>
     /\ \A i \in Creating :
          IsSettled(i) /\ ~Outcome(i) /\ CreateSessionFinish(i)
            => sessions' = <<saved[i]>> \o sessions /\ activeSessionId' = saved[i].id
     /\ SomeFailed /\ lastOp' = "addMessage"
          => \E sid \in SessionIds(sessions) :
               /\ Len(MessagesOf(sessions', sid)) = Len(MessagesOf(sessions, sid)) + 1
               /\ MessagesOf(sessions', sid)[Len(MessagesOf(sessions', sid))].id = nextId
     /\ SomeFailed /\ lastOp' = "updateMessage"
          => \E sid \in SessionIds(sessions) : \E mid \in MessageIds(sessions, sid) :
               \E u \in FailUpdates :
                 /\ MsgOf(sessions', sid, mid).content = u.content
                 /\ MsgOf(sessions', sid, mid).isPartial = u.isPartial
     /\ SomeFailed /\ lastOp' = "deleteMessagesFrom"
          => \E sid \in SessionIds(sessions) : \E mid \in MessageIds(sessions, sid) :
               MessagesOf(sessions', sid)
                 = SubSeq(MessagesOf(sessions, sid), 1,
                          IndexOfMsg(MessagesOf(sessions, sid), mid) - 1)]_vars

\* every request made of the store has failed, nothing is stored, and the session
\* created over the failing engine is listed first, active, and holds the assistant
\* message that was added and then overwritten
C27_Witness ==
  /\ sessions # <<>> /\ activeSessionId = sessions[1].id
  /\ Len(sessions[1].messages) = 1 /\ sessions[1].messages[1].content = <<"x">>
  /\ Len(settled) = Len(saved) /\ Len(saved) >= 3
  /\ \A j \in DOMAIN settled : saved[settled[j].call].id = sessions[1].id => ~settled[j].ok
  /\ ~HasPersisted(sessions[1].id)

\* C28: every failure of streamGeneration reaches its caller as a PollinationsError
\* {message, status, code}; when fetch rejects before any response (the network is
\* unreachable), and when the connection breaks under reader.read(), what is thrown is a
\* PollinationsError too.
C28_FailuresNormalized ==
  [][FetchFails("network") \/ ReadFails => spc' = "threw PollinationsError"]_vars

\* C29: generateImage and generateVideo throw a PollinationsError with a status in
\* exactly three cases: the response is not OK; it is OK with a JSON content type; it is
\* OK, its payload is under 10,000 bytes, of a type that is not the medium's, and its
\* text parses as JSON with an error or a message. In every other case they return the
\* payload as it came.
JsonErrorBodies == {"errorObject", "badRequest", "serverError", "messageOnly"}
MediumTypes(fn) == IF fn = "generateImage" THEN {"image/png"} ELSE {"video/mp4"}
MustThrow(fn, res) ==
  \/ res.status # 200
  \/ res.status = 200 /\ res.contentType = "application/json"
  \/ /\ res.status = 200 /\ res.size < 10000 /\ res.contentType \notin MediumTypes(fn)
     /\ res.body \in JsonErrorBodies
C29_MediaErrorsOrPayload ==
  result # Pending /\ args.fn \in {"generateImage", "generateVideo"} =>
    IF MustThrow(args.fn, args.res)
      THEN /\ "threw" \in DOMAIN result /\ result.threw = "PollinationsError"
           /\ result.status \in {200, 400, 500}
    ELSE result = [returned |-> [type |-> args.res.contentType, size |-> args.res.size,
                                 body |-> args.res.body]]

\* an OK response typed text/plain, 9,999 bytes long, that reads {error: "Bad Request",
\* message}: generateImage threw with status 400
C29_Witness ==
  /\ result # Pending /\ args.fn = "generateImage"
  /\ args.res = [status |-> 200, contentType |-> "text/plain", size |-> 9999, body |-> "badRequest"]
  /\ "threw" \in DOMAIN result /\ result.status = 400

\* C30: computePollenCost returns MIN_POLLEN_PER_PROMPT when there is no pricing, and
\* never less than it for any pricing object and any token counts from 0 up, a
\* computed cost of 0 included.
C30_CostNeverBelowMinimum ==
  result # Pending /\ args.fn = "computePollenCost" =>
    /\ result.returned >= 40
    /\ args.cost.pricing = NoPricing => result.returned = 40

\* a pricing object that prices input text only, called with no tokens at all: the
\* computed cost is 0 and the minimum is what came back
C30_Witness ==
  /\ result # Pending /\ args.fn = "computePollenCost"
  /\ args.cost.pricing # NoPricing /\ args.cost.pricing.promptTextTokens = 1
  /\ \A f \in PricingFields \ {"promptTextTokens"} : args.cost.pricing[f] = 0
  /\ args.cost.inputTokens = 0 /\ args.cost.outputTokens = 0
  /\ result.returned = 40

\* C31: the cost computePollenCost returns holds the output cost of one field only, the
\* first present of text per token, image per unit (flat), video per second (times 5),
\* video per token, audio per token, audio per second (times 10); what stands under the
\* fields after it adds nothing.
OutputOrder ==
  <<"completionTextTokens", "completionImageTokens", "completionVideoSeconds",
    "completionVideoTokens", "completionAudioTokens", "completionAudioSeconds">>
OutputCostOf(i, price, outputTokens) ==
  CASE i \in {1, 4, 5} -> price * outputTokens
    [] i = 2 -> price
    [] i = 3 -> price * 5
    [] i = 6 -> price * 10
PresentOutputs(pricing) == { i \in DOMAIN OutputOrder : pricing[OutputOrder[i]] # 0 }
FirstOutputCost(pricing, outputTokens) ==
  IF PresentOutputs(pricing) = {} THEN 0
  ELSE LET i == CHOOSE j \in PresentOutputs(pricing) : \A h \in PresentOutputs(pricing) : j <= h
       IN OutputCostOf(i, pricing[OutputOrder[i]], outputTokens)
C31_OneOutputFieldInOrder ==
  result # Pending /\ args.fn = "computePollenCost" /\ args.cost.pricing # NoPricing =>
    LET c == args.cost
        cost == (c.pricing.promptTextTokens + c.pricing.promptAudioTokens) * c.inputTokens
                + FirstOutputCost(c.pricing, c.outputTokens)
    IN result.returned = IF cost < 40 THEN 40 ELSE cost

\* image per unit and audio per second are both priced, 500 output tokens are asked
\* for: the image price alone came back
C31_Witness ==
  /\ result # Pending /\ args.fn = "computePollenCost" /\ args.cost.pricing # NoPricing
  /\ args.cost.pricing.completionImageTokens = 100
  /\ args.cost.pricing.completionAudioSeconds = 100
  /\ \A f \in PricingFields \ {"completionImageTokens", "completionAudioSeconds"} :
       args.cost.pricing[f] = 0
  /\ args.cost.outputTokens = 500
  /\ result.returned = 100

\* C32: hasSufficientPollen is true whenever the balance is at least what is required,
\* the two being equal included, and false whenever the balance is below it by more
\* than EPSILON.
C32_SufficientUpToEpsilon ==
  result # Pending /\ args.fn = "hasSufficientPollen" =>
    /\ args.balance >= args.requiredPollen => result.returned
    /\ args.requiredPollen - args.balance > EPSILON => ~result.returned

\* C32, with the rounding of the sum allowed for: hasSufficientPollen is true whenever
\* the balance is at least what is required, and false whenever the balance with
\* EPSILON added does not pass the largest number below what is required.
Below(x) == CHOOSE f \in Floats : f < x /\ \A g \in Floats : g < x => g <= f
C32_SufficientUpToRounding ==
  result # Pending /\ args.fn = "hasSufficientPollen" =>
    /\ args.balance >= args.requiredPollen => result.returned
    /\ args.requiredPollen > 0 /\ args.balance + EPSILON <= Below(args.requiredPollen)
         => ~result.returned

\* the balance is exactly what is required, and that was found sufficient
C32_Witness ==
  /\ result # Pending /\ args.fn = "hasSufficientPollen"
  /\ args.balance = args.requiredPollen /\ args.balance > Pow2(SIGNIFICAND)
  /\ result.returned

\* what an imported session says: its id, its title, and its messages' contents
TextOf(s, key) == IF HasKey(s, key) /\ GetKey(s, key).t = "str" THEN GetKey(s, key).v ELSE <<"?">>
SameSession(imported, original) ==
  /\ TextOf(imported, KeyId) = original.id
  /\ TextOf(imported, KeyTitle) = original.title
  /\ Len(GetKey(imported, KeyMessages).v) = Len(original.messages)
  /\ \A j \in DOMAIN original.messages :
       /\ TextOf(GetKey(imported, KeyMessages).v[j], KeyContent) = original.messages[j].content
       /\ TextOf(GetKey(imported, KeyMessages).v[j], KeyRole) = RoleText(original.messages[j].role)

\* C33: importJSON(exportJSON(sessions)) returns as many sessions as were
\* exported, in the same order, each with the id, the title and the messages
\* (content and order) of the original.
C33_JsonRoundTrip ==
  (result # Pending /\ args.fn = "importJSON") =>
    /\ "returned" \in DOMAIN result
    /\ Len(result.returned) = Len(args.exported)
    /\ \A i \in DOMAIN args.exported : SameSession(result.returned[i], args.exported[i])

\* two sessions came back, the first with two messages, one of them holding a
\* quote character
C33_Witness ==
  /\ result # Pending /\ args.fn = "importJSON"
  /\ "returned" \in DOMAIN result
  /\ Len(result.returned) = 2
  /\ args.exported[1].id # args.exported[2].id
  /\ Len(args.exported[1].messages) = 2
  /\ args.exported[1].messages[1].content = <<"\"">>
  /\ args.exported[1].messages[2].content = <<"a">>
  /\ SameSession(result.returned[1], args.exported[1])

\* an export of the plainest kind: every title and every content is one line
\* of letters, every session has a message, no message has an attachment
PlainLine(text) == Len(text) = 1 /\ text[1] \in { <<"a">>, <<"b">> }
PlainExport(exported) ==
  /\ Len(exported) > 0
  /\ \A i \in DOMAIN exported :
       /\ PlainLine(exported[i].title)
       /\ Len(exported[i].messages) > 0
       /\ \A j \in DOMAIN exported[i].messages :
            /\ PlainLine(exported[i].messages[j].content)
            /\ exported[i].messages[j].attachments = <<>>
SameMdSession(imported, original) ==
  /\ <<imported.title>> = original.title
  /\ Len(imported.messages) = Len(original.messages)
  /\ \A j \in DOMAIN original.messages :
       /\ imported.messages[j].role = original.messages[j].role
       /\ imported.messages[j].content = original.messages[j].content

\* C34: importMarkdown(exportMarkdown(sessions)) gives every session back with
\* its title and every message, in order, with its role and its text.  Stated
\* here for the plainest exports only, which the claim for any sessions covers.
C34_MarkdownRoundTrip ==
  (result # Pending /\ args.fn = "importMarkdown" /\ PlainExport(args.exported)) =>
    /\ "returned" \in DOMAIN result
    /\ Len(result.returned) = Len(args.exported)
    /\ \A i \in DOMAIN args.exported : SameMdSession(result.returned[i], args.exported[i])

\* C35: truncateMessages on a non-empty list keeps a system message at index 0,
\* keeps the last message, removes only a run of the oldest messages after the
\* system message, and removed + the length of the result is the length of the
\* input.
C35_TruncateKeepsSystemAndLast ==
  (result # Pending /\ args.fn = "truncateMessages") =>
    LET n == Len(args.messages)
        head == IF args.messages[1].role = "system" THEN 1 ELSE 0
    IN /\ result.removed + Len(result.messages) = n
       /\ Len(result.messages) >= 1
       /\ result.messages[Len(result.messages)] = args.messages[n]
       /\ head = 1 => result.messages[1] = args.messages[1]
       /\ result.messages =
            SubSeq(args.messages, 1, head) \o SubSeq(args.messages, head + result.removed + 1, n)

\* C36: a message sent from the composer while the estimate is over the
\* model's input limit is still sent (handleSend takes it up), and no request
\* goes out with more than the limit.
C36_OverLimitSendsTruncated ==
  /\ [][(lastOp' \in {"send", "overLimit"} /\ ~isStreaming
           /\ IsOverLimit(ActiveMessages, <<"h">>, LimitModel))
          => Len(calls') = Len(calls) + 1]_vars
  /\ [](\A k \in DOMAIN calls :
          estimateMessagesTokens(calls[k].apiMessages) <= MaxInputTokensOf(LimitModel))

\* C37: a Regenerate that goes through leaves the log as it was up to and
\* including the user message before the regenerated assistant message,
\* followed by exactly one new assistant message.
C37_RegenerateKeepsOneUserTurn ==
  [][(lastOp' = "regenerate" /\ Len(calls') = Len(calls) + 1) =>
       \E i \in 2..Len(ActiveMessages) :
         /\ ActiveMessages[i].role = "assistant" /\ ActiveMessages[i - 1].role = "user"
         /\ Len(ActiveMessages') = i
         /\ SubSeq(ActiveMessages', 1, i - 1) = SubSeq(ActiveMessages, 1, i - 1)
         /\ ActiveMessages'[i].role = "assistant"]_vars

\* the sessions a delete or clear request is to remove, and the writes of
\* message updates that were requested after it
RemovedBy(i) ==
  IF saved[i].request = "delete" THEN {saved[i].id}
  ELSE { saved[h].id : h \in { x \in 1..(i - 1) : IsPut(saved[x]) } }
UpdatedDuring(i, id) == \E h \in (i + 1)..Len(saved) : IsPut(saved[h]) /\ saved[h].id = id

\* C38: when deleteSession or clearAll has finished and every write requested
\* meanwhile has completed, a session that was still receiving updates is
\* neither in the in-memory list nor in the store.
C38_DeletedSessionStaysDeleted ==
  \A i \in DOMAIN saved :
    (/\ ~IsPut(saved[i])
     /\ \A h \in DOMAIN saved : IsSettled(h)
     /\ Outcome(i)
     /\ Await("deleteSession", i) \notin awaiting /\ Await("clearAll", i) \notin awaiting)
      => \A id \in RemovedBy(i) :
           UpdatedDuring(i, id) => ~HasSession(sessions, id) /\ ~HasPersisted(id)

\* the generations that acted on a step, and what a step changed in the log
Acted(k) == calls[k].pc = "stream" /\ calls'[k] # calls[k]
ChangedOnlyTargets ==
  /\ Len(sessions') = Len(sessions)
  /\ \A i \in DOMAIN sessions :
       /\ sessions'[i].id = sessions[i].id
       /\ Len(sessions'[i].messages) = Len(sessions[i].messages)
       /\ \A j \in DOMAIN sessions[i].messages :
            sessions'[i].messages[j] # sessions[i].messages[j] =>
              \E k \in DOMAIN calls :
                /\ Acted(k)
                /\ sessions[i].id = calls[k].sessionId
                /\ sessions[i].messages[j].id = calls[k].assistantId

\* C39: a delta, a finalization, a cancel marker or an error text of a
\* generation changes the message whose id the generation fixed with its
\* placeholder, in the session it fixed, and nothing else, whichever session
\* is active; a delta does reach that message.
C39_UpdatesTargetCapturedIds ==
  [][lastOp' \in {"chunk", "done", "error", "cancel"} =>
       /\ ChangedOnlyTargets
       /\ lastOp' = "chunk" =>
            \A k \in DOMAIN calls :
              (Acted(k) /\ HasMsg(sessions, calls[k].sessionId, calls[k].assistantId)) =>
                MsgOf(sessions', calls[k].sessionId, calls[k].assistantId).content
                  = calls'[k].accum]_vars

\* a delta has just been written into a session that is not the active one
C39_Witness ==
  /\ lastOp = "chunk"
  /\ activeSessionId # NoId
  /\ \E k \in DOMAIN calls :
       /\ calls[k].pc = "stream" /\ calls[k].accum # <<>>
       /\ calls[k].sessionId # activeSessionId
       /\ HasMsg(sessions, calls[k].sessionId, calls[k].assistantId)
       /\ MsgOf(sessions, calls[k].sessionId, calls[k].assistantId).content = calls[k].accum
       /\ ActiveMessages = <<>>

\* a session that createSession made (it has the default title; stored and
\* imported sessions have a title of their own)
IsCreated(s) == s.title = DefaultTitle

\* C40: when the startup load or the reload of importSessions completes, a
\* session that createSession made is still in the in-memory list with the
\* messages it had, and is still the active session if it was.
C40_CreatedSessionSurvivesLoads ==
  [][lastOp' \in {"load", "loaded", "reload"} =>
       \A i \in DOMAIN sessions :
         IsCreated(sessions[i]) =>
           /\ \E j \in DOMAIN sessions' :
                /\ sessions'[j].id = sessions[i].id
                /\ sessions'[j].messages = sessions[i].messages
           /\ activeSessionId = sessions[i].id => activeSessionId' = sessions[i].id]_vars
====
